---- MODULE Spec2Model ----
(***************************************************************************)
(* The PROTECT exchange of the trust-chain agent                           *)
(* (src/src/agent/simple_protect.py on top of src/src/agent/base.py) and   *)
(* the BlockIndex algebra it rests on (src/src/chain/index.py).            *)
(*                                                                         *)
(* An agent is identified by a small integer that stands both for its     *)
(* public key and for its transport address (AgentInfo pairs the two).    *)
(* A block is the record [pk, seq, lpk, lseq, tx]; previous_hash and       *)
(* signature belong to the TrustChain primitive and are read by no        *)
(* handler.  An optional value (None in the source) is a sequence of       *)
(* length 0 or 1.                                                          *)
(***************************************************************************)
EXTENDS Integers, Sequences, FiniteSets, TLC

NumAgents == 3
MaxTicks == 2
FaultyTicks == 1
MaxFaults == 2
MaxKey == 2      \* public keys of the indexes and chains handed to a function
MaxSeq == 2      \* sequence numbers of those indexes
MaxChain == 3    \* blocks and sequence numbers of those chains

Agents == 1..NumAgents

UNKNOWN_SEQ == 0
GENESIS_SEQ == 1
HexBase == 100

VARIABLES
  db,         \* db[a]: the set of blocks in a's block store
  cache,      \* cache[a]: the request cache, a function peer -> request state
  exch,       \* exch[a]: the exchange storage, a set of [hash, index]
  ignore,     \* ignore[a]: the ignore list (a Python list)
  agents,     \* agents[a]: the peers a learned from the directory
  directory,  \* the agents registered at the directory
  chan,       \* chan[<<s, d>>]: messages in flight from s to d, in send order
  dup,        \* per channel: the receiver's stores right after the first of
              \* two deliveries of the head message, if it was delivered once
  sent,       \* the messages the last step handed to com.send
  err,        \* agents one of whose handlers ended in a Python exception
  ticks,      \* step() calls left
  faults,     \* duplicated or forged deliveries left
  coll,       \* coll[{a, b}]: <<n>> while a collision of a and b is pending
  accepted,   \* accepted[<<i, r>>]: the PROTECT_CHAINs of i that r accepted
  call        \* a call of a function of the library on its own: the
              \* function, its arguments and what it returned

vars == <<db, cache, exch, ignore, agents, directory, chan, sent, dup, err,
          ticks, faults, coll, accepted, call>>

----------------------------------------------------------------------------
(* Sequences and sets *)

Range(s) == {s[i] : i \in DOMAIN s}

Min(S) == CHOOSE x \in S : \A y \in S : x <= y

Max(S) == CHOOSE x \in S : \A y \in S : y <= x

\* sorted(list(S)) of a set of integers; list(set(...)) of small integers
\* iterates in ascending order as well.
SortedList(S) ==
  [i \in 1..Cardinality(S) |->
     CHOOSE x \in S : Cardinality({y \in S : y < x}) = i - 1]

\* The place of entry j in sorted(entries, key=lambda x: x[0]): a stable
\* sort on the key.
KeyRank(entries, j) ==
  Cardinality({k \in DOMAIN entries :
                 \/ entries[k][1] < entries[j][1]
                 \/ entries[k][1] = entries[j][1] /\ k < j}) + 1

\* No sort: the entries as they come.
SortByKey_as_given(entries) == entries

\* sorted(entries, key=lambda x: x[0])
SortByKey(entries) ==
  [i \in DOMAIN entries |->
     entries[CHOOSE j \in DOMAIN entries : KeyRank(entries, j) = i]]

----------------------------------------------------------------------------
(* BlockIndex: a sequence of entries <<public_key, sequence numbers>> *)

EmptyIndex == <<>>

\* The (public_key, sequence_number) pairs an index lists.
Pairs(index) ==
  UNION {{<<index[i][1], n>> : n \in Range(index[i][2])} : i \in DOMAIN index}

RECURSIVE SubLoop(_, _, _, _)
SubLoop(own, other, i, j) ==
  IF i <= Len(own) /\ j <= Len(other)
  THEN IF own[i][1] = other[j][1]
       THEN LET diff == SortedList(Range(own[i][2]) \ Range(other[j][2]))
            IN  (IF own[i][2] # other[j][2] /\ Len(diff) > 0
                 THEN <<(<<own[i][1], diff>>)>> ELSE <<>>)
                \o SubLoop(own, other, i + 1, j + 1)
       ELSE IF own[i][1] < other[j][1]
            THEN <<own[i]>> \o SubLoop(own, other, i + 1, j)
            ELSE SubLoop(own, other, i, j + 1)
  ELSE IF i <= Len(own) THEN SubSeq(own, i, Len(own)) ELSE <<>>

\* A difference that takes nothing away.
IndexSub_nothing(self, other) == SortByKey(self)

\* A difference that merges the entries in the order they come in.
IndexSub_as_given(self, other) == SubLoop(self, other, 1, 1)

\* BlockIndex.__sub__
IndexSub(self, other) ==
  CHOOSE exchange \in
    {SubLoop(own_index, other_index, 1, 1) :
       own_index \in {SortByKey(self)}, other_index \in {SortByKey(other)}} :
    TRUE

RECURSIVE AddLoop(_, _, _, _)
AddLoop(own, other, i, j) ==
  IF i <= Len(own) /\ j <= Len(other)
  THEN IF own[i][1] = other[j][1]
       THEN LET union == SortedList(Range(own[i][2]) \cup Range(other[j][2]))
            IN  (IF Len(union) > 0 THEN <<(<<own[i][1], union>>)>> ELSE <<>>)
                \o AddLoop(own, other, i + 1, j + 1)
       ELSE IF own[i][1] < other[j][1]
            THEN <<own[i]>> \o AddLoop(own, other, i + 1, j)
            ELSE <<other[j]>> \o AddLoop(own, other, i, j + 1)
  ELSE IF i <= Len(own) THEN SubSeq(own, i, Len(own))
  ELSE IF j <= Len(other) THEN SubSeq(other, j, Len(other))
  ELSE <<>>

\* A union that returns the sorted entries of self alone.
IndexAdd_own_only(self, other) == SortByKey(self)

\* BlockIndex.__add__
IndexAdd(self, other) ==
  CHOOSE exchange \in
    {AddLoop(own_index, other_index, 1, 1) :
       own_index \in {SortByKey(self)}, other_index \in {SortByKey(other)}} :
    TRUE

\* index_dict of from_blocks: per public key, the sorted sequence numbers.
IndexOfKeys(keys, blocks) ==
  [i \in 1..Cardinality(keys) |->
     <<SortedList(keys)[i],
       SortedList({b.seq : b \in {x \in blocks : x.pk = SortedList(keys)[i]}})>>]

\* BlockIndex.from_blocks; the entries come in the dictionary's order, taken
\* here to be the order of the keys.
from_blocks(blocks) == IndexOfKeys({b.pk : b \in Range(blocks)}, Range(blocks))

RECURSIVE Flatten(_)
Flatten(ss) == IF ss = <<>> THEN <<>> ELSE Head(ss) \o Flatten(Tail(ss))

\* BlockIndex.to_database_args
to_database_args(index) ==
  Flatten([i \in DOMAIN index |->
             [n \in DOMAIN index[i][2] |-> <<index[i][1], index[i][2][n]>>]])

\* str.encode('hex') and str.decode('hex') of a public key
HexEncode(k) == HexBase + k
HexDecode(h) == h - HexBase

\* The transfer index from_chain reads off a block: none unless the payload
\* has a non-empty transfer_up or transfer_down; transfer_up of a linked
\* block, transfer_down otherwise.
Transfer(block) ==
  IF block.tx.up # <<>> \/ block.tx.down # <<>>
  THEN IF block.lseq # UNKNOWN_SEQ THEN block.tx.up ELSE block.tx.down
  ELSE <<>>

\* BlockIndex.from_chain; entries in the order of the keys, as in from_blocks.
from_chain(chain) ==
  LET transfers == UNION {Range(Transfer(block)) : block \in Range(chain)}
      keys == {block.pk : block \in Range(chain)}
                \cup {HexDecode(elem[1]) : elem \in transfers}
      Seqs(k) == {block.seq : block \in {x \in Range(chain) : x.pk = k}}
                   \cup UNION {Range(elem[2]) :
                                 elem \in {e \in transfers : HexDecode(e[1]) = k}}
  IN  [i \in 1..Cardinality(keys) |->
         <<SortedList(keys)[i], SortedList(Seqs(SortedList(keys)[i]))>>]

\* BlockIndex.db_pack
db_pack(index) == [i \in DOMAIN index |-> <<HexEncode(index[i][1]), index[i][2]>>]

----------------------------------------------------------------------------
(* Blocks *)

EMPTY_PK == 0

\* The transaction {} of a base block; an exchange block carries
\* {'transfer_up': ..., 'transfer_down': ...}.
NoTx == [exchange |-> FALSE, up |-> <<>>, down |-> <<>>]

ExchangeTx(up, down) == [exchange |-> TRUE, up |-> up, down |-> down]

Blk(pk, seq, lpk, lseq, tx) ==
  [pk |-> pk, seq |-> seq, lpk |-> lpk, lseq |-> lseq, tx |-> tx]

Genesis(a) == Blk(a, GENESIS_SEQ, EMPTY_PK, UNKNOWN_SEQ, NoTx)

\* The hash of a block: its canonical encoding (hashing is collision-free).
Hash(b) == <<b.pk, b.seq, b.lpk, b.lseq, b.tx>>

\* Block.as_message: the transaction is pickled into the payload.
BlockAsMessage(b) ==
  [payload |-> <<"pickle", b.tx>>, public_key |-> b.pk,
   sequence_number |-> b.seq, link_public_key |-> b.lpk,
   link_sequence_number |-> b.lseq]

\* Block.from_message
BlockFromMessage(bm) ==
  Blk(bm.public_key, bm.sequence_number, bm.link_public_key,
      bm.link_sequence_number, bm.payload[2])

BlocksAsMessage(blocks) == [i \in DOMAIN blocks |-> BlockAsMessage(blocks[i])]

BlocksFromMessage(bms) == [i \in DOMAIN bms |-> BlockFromMessage(bms[i])]

\* Block.as_message on a block with all its fields.
as_message(block) ==
  [payload |-> <<"pickle", block.transaction>>,
   public_key |-> block.public_key,
   sequence_number |-> block.sequence_number,
   link_public_key |-> block.link_public_key,
   link_sequence_number |-> block.link_sequence_number,
   previous_hash |-> block.previous_hash,
   signature |-> block.signature]

\* A from_message that starts the block's validation fields afresh.
from_message_fresh(message, now) ==
  [transaction |-> message.payload[2],
   public_key |-> message.public_key,
   sequence_number |-> message.sequence_number,
   link_public_key |-> message.link_public_key,
   link_sequence_number |-> message.link_sequence_number,
   previous_hash |-> "GENESIS_HASH",
   signature |-> "EMPTY_SIG",
   insert_time |-> <<now>>]

\* Block.from_message; now is what time.time() returns.
from_message(message, now) ==
  [transaction |-> message.payload[2],
   public_key |-> message.public_key,
   sequence_number |-> message.sequence_number,
   link_public_key |-> message.link_public_key,
   link_sequence_number |-> message.link_sequence_number,
   previous_hash |-> message.previous_hash,
   signature |-> message.signature,
   insert_time |-> <<now>>]

\* BlockIndex.as_message
IndexAsMessage(index) ==
  [i \in DOMAIN index |->
     [public_key |-> index[i][1], sequence_numbers |-> index[i][2]]]

\* BlockIndex.from_message
IndexFromMessage(im) ==
  [i \in DOMAIN im |-> <<im[i].public_key, im[i].sequence_numbers>>]

----------------------------------------------------------------------------
(* Database: the block store, a set of blocks *)

HasBlock(D, pk, seq) == \E b \in D : b.pk = pk /\ b.seq = seq

BlockAt(D, pk, seq) == CHOOSE b \in D : b.pk = pk /\ b.seq = seq

\* Database.add: the block stored first under (public_key, sequence_number)
\* stays.
db_add(D, b) == IF HasBlock(D, b.pk, b.seq) THEN D ELSE D \cup {b}

\* Database.get_chain: pk's blocks 1..N in order, up to the first gap.
get_chain(D, pk) ==
  LET top == Max({0} \cup {b.seq : b \in {x \in D : x.pk = pk}})
      n   == Max({k \in 0..top : \A i \in 1..k : HasBlock(D, pk, i)})
  IN  [i \in 1..n |-> BlockAt(D, pk, i)]

\* The stored blocks in the order of (public_key, sequence_number).
BlockList(D) ==
  [i \in 1..Cardinality(D) |->
     CHOOSE b \in D :
       Cardinality({x \in D : \/ x.pk < b.pk
                              \/ x.pk = b.pk /\ x.seq < b.seq}) = i - 1]

\* Database.get_all_blocks
get_all_blocks(D) == BlockList(D)

RECURSIVE Lookup(_, _)
Lookup(D, args) ==
  IF args = <<>> THEN <<>>
  ELSE (IF HasBlock(D, Head(args)[1], Head(args)[2])
        THEN <<BlockAt(D, Head(args)[1], Head(args)[2])>> ELSE <<>>)
       \o Lookup(D, Tail(args))

\* A lookup that returns the first listed block only.
db_index_first(D, index) ==
  Lookup(D, SubSeq(to_database_args(index), 1, 1))

\* Database.index: the stored blocks an index lists; the others are left out.
db_index(D, index) == Lookup(D, to_database_args(index))

----------------------------------------------------------------------------
(* BlockFactory *)

\* A factory that leaves a sequence number out.
NextSeq_skipping(D, self) ==
  Max({0} \cup {b.seq : b \in {x \in D : x.pk = self}}) + 2

NextSeq(D, self) == Max({0} \cup {b.seq : b \in {x \in D : x.pk = self}}) + 1

\* BlockFactory.create_new: the proposal half linked to partner_pk.
create_new(D, self, partner_pk, payload) ==
  Blk(self, NextSeq(D, self), partner_pk, UNKNOWN_SEQ, payload)

\* BlockFactory.create_linked: the agreement half of a proposal.
create_linked(D, self, proposal) ==
  Blk(self, NextSeq(D, self), proposal.pk, proposal.seq, proposal.tx)

----------------------------------------------------------------------------
(* RequestCache: a function from peer address to request state *)

RequestState(chain) ==
  [chain |-> chain, index |-> <<>>, transfer_up |-> <<>>,
   transfer_down |-> <<>>]

\* RequestCache.get(addr) is not None
rc_open(C, addr) == addr \in DOMAIN C

\* RequestCache.new
rc_new(C, addr, chain) ==
  [p \in DOMAIN C \cup {addr} |-> IF p = addr THEN RequestState(chain) ELSE C[p]]

\* RequestCache.remove
rc_remove(C, addr) == [p \in DOMAIN C \ {addr} |-> C[p]]

rc_set_index(C, addr, index) == [C EXCEPT ![addr].index = <<index>>]

rc_set_transfer_up(C, addr, index) == [C EXCEPT ![addr].transfer_up = <<index>>]

\* A request that forgets the transfer_down it is given.
rc_set_transfer_down_lost(C, addr, index) == C

rc_set_transfer_down(C, addr, index) ==
  [C EXCEPT ![addr].transfer_down = <<index>>]

NoRequests == [p \in {} |-> RequestState(<<>>)]

----------------------------------------------------------------------------
(* ExchangeStorage: a set of [hash, index], one entry per hash *)

\* ExchangeStorage.add_exchange
add_exchange(E, block, index) ==
  {e \in E : e.hash # Hash(block)} \cup {[hash |-> Hash(block), index |-> index]}

\* ExchangeStorage.as_message needs every recorded index to be a BlockIndex.
CanSendExchanges(E) == \A e \in E : e.index # <<>>

ExchangesAsMessage(E) ==
  {[block_hash |-> e.hash, index |-> IndexAsMessage(e.index[1])] : e \in E}

\* ExchangeStorage.from_message
ExchangesFromMessage(em) ==
  {[hash |-> x.block_hash, index |-> <<IndexFromMessage(x.index)>>] : x \in em}

RECURSIVE SumIndexes(_, _)
\* partner_index = partner_index + index, for every received exchange
SumIndexes(acc, E) ==
  IF E = {} THEN acc
  ELSE CHOOSE sum \in
         {SumIndexes(IndexAdd(acc, e.index[1]), E \ {e}) :
            e \in {CHOOSE x \in E : TRUE}} : TRUE

----------------------------------------------------------------------------
(* Messages and transport *)

Message(type) ==
  [type |-> type, chain |-> <<>>, blocks |-> <<>>, index |-> <<>>, exch |-> {}]

\* msg.Database(blocks=...)
DatabaseMsg(type, blocks) ==
  [Message(type) EXCEPT !.blocks = BlocksAsMessage(blocks)]

\* msg.ChainAndBlocks(chain=..., blocks=...)
ChainAndBlocksMsg(type, chain, blocks) ==
  [Message(type) EXCEPT !.chain = BlocksAsMessage(chain),
                        !.blocks = BlocksAsMessage(blocks)]

BlockMsg(type, block) == [Message(type) EXCEPT !.blocks = <<BlockAsMessage(block)>>]

IndexMsg(type, index) == [Message(type) EXCEPT !.index = IndexAsMessage(index)]

ExchangeMsg(type, E) == [Message(type) EXCEPT !.exch = ExchangesAsMessage(E)]

Channels == {c \in Agents \X Agents : c[1] # c[2]}

\* com.send: the message joins the sender's queue to dst; an address at which
\* no agent listens takes no messages.
Send(net, src, dst, m) ==
  [net  |-> IF dst \in directory /\ dst # src
            THEN [net EXCEPT ![<<src, dst>>] = Append(@, m)]
            ELSE net,
   sent |-> <<[src |-> src, dst |-> dst, msg |-> m]>>]

\* A handler that sends nothing.
Quiet(net) == [net |-> net, sent |-> <<>>]

\* What a handler leaves behind: the agent's stores, whether it raised, and
\* the network.
Effect(self, D, C, E, I, raised, out) ==
  /\ db' = [db EXCEPT ![self] = D]
  /\ cache' = [cache EXCEPT ![self] = C]
  /\ exch' = [exch EXCEPT ![self] = E]
  /\ ignore' = [ignore EXCEPT ![self] = I]
  /\ err' = IF raised THEN err \cup {self} ELSE err
  /\ chan' = out.net
  /\ sent' = out.sent

\* A handler that returns, or raises, before it changed anything.
Dropped(self, raised, out) ==
  Effect(self, db[self], cache[self], exch[self], ignore[self], raised, out)

\* next((a for a in self.agents if a.address == sender), None)
KnownPartner(self, sender) == sender \in agents[self]

----------------------------------------------------------------------------
(* ProtectSimpleAgent: verification *)

Count(n, seq) == Cardinality({i \in DOMAIN seq : seq[i] = n})

\* A verification that only asks for positive sequence numbers: it lets a
\* chain with a gap pass.
verify_chain_gaps_allowed(chain) ==
  \A i \in DOMAIN chain : chain[i].seq >= GENESIS_SEQ

\* ProtectSimpleAgent.verify_chain, for a chain that is not empty:
\* Counter(seq) == Counter(range(1, max(seq) + 1))
verify_chain(chain) ==
  LET seq == [i \in DOMAIN chain |-> chain[i].seq]
      top == Max(Range(seq))
  IN  \A n \in Range(seq) \cup 1..top :
        Count(n, seq) = (IF n \in 1..top THEN 1 ELSE 0)

verify_blocks(blocks) == TRUE

verify_chain_and_blocks(blocks) == TRUE

----------------------------------------------------------------------------
(* ProtectSimpleAgent: the message handlers.  Each takes the receiving     *)
(* agent, the sender's address, the message and the network without it.    *)

Reject == Message("PROTECT_REJECT")

\* A responder that never consults its ignore list.
protect_chain_forgetful(self, sender, m, net) ==
  IF rc_open(cache[self], sender)
  THEN Dropped(self, FALSE, Send(net, self, sender, Reject))
  ELSE LET chain == BlocksFromMessage(m.blocks)
           C     == rc_new(cache[self], sender, <<chain>>)
       IN  IF chain = <<>>
           THEN Effect(self, db[self], C, exch[self], ignore[self], TRUE,
                       Quiet(net))
           ELSE IF verify_chain(chain)
           THEN Effect(self, db[self], C, exch[self], ignore[self], FALSE,
                       Send(net, self, sender, Message("PROTECT_INDEX_REQUEST")))
           ELSE Effect(self, db[self], C, exch[self],
                       Append(ignore[self], sender), FALSE,
                       Send(net, self, sender, Reject))

\* A responder that takes a second PROTECT_CHAIN within a session for fraud.
protect_chain_strict(self, sender, m, net) ==
  IF rc_open(cache[self], sender)
  THEN Effect(self, db[self], cache[self], exch[self],
              Append(ignore[self], sender), FALSE,
              Send(net, self, sender, Reject))
  ELSE IF sender \in Range(ignore[self])
  THEN Dropped(self, FALSE, Send(net, self, sender, Reject))
  ELSE LET chain == BlocksFromMessage(m.blocks)
           C     == rc_new(cache[self], sender, <<chain>>)
       IN  IF chain = <<>>
           THEN Effect(self, db[self], C, exch[self], ignore[self], TRUE,
                       Quiet(net))
           ELSE IF verify_chain(chain)
           THEN Effect(self, db[self], C, exch[self], ignore[self], FALSE,
                       Send(net, self, sender, Message("PROTECT_INDEX_REQUEST")))
           ELSE Effect(self, db[self], C, exch[self],
                       Append(ignore[self], sender), FALSE,
                       Send(net, self, sender, Reject))

\* @MessageHandler(msg.PROTECT_CHAIN)
protect_chain(self, sender, m, net) ==
  IF rc_open(cache[self], sender)
  THEN Dropped(self, FALSE, Send(net, self, sender, Reject))
  ELSE IF sender \in Range(ignore[self])
  THEN Dropped(self, FALSE, Send(net, self, sender, Reject))
  ELSE LET chain == BlocksFromMessage(m.blocks)
           C     == rc_new(cache[self], sender, <<chain>>)
       IN  IF chain = <<>>
           THEN \* max() of an empty list raises ValueError in verify_chain
                Effect(self, db[self], C, exch[self], ignore[self], TRUE, Quiet(net))
           ELSE IF verify_chain(chain)
           THEN Effect(self, db[self], C, exch[self], ignore[self], FALSE,
                       Send(net, self, sender, Message("PROTECT_INDEX_REQUEST")))
           ELSE Effect(self, db[self], C, exch[self],
                       Append(ignore[self], sender), FALSE,
                       Send(net, self, sender, Reject))

\* @MessageHandler(msg.PROTECT_INDEX_REQUEST)
protect_index_request(self, sender, m, net) ==
  IF ~rc_open(cache[self], sender) THEN Dropped(self, FALSE, Quiet(net))
  ELSE IF ~CanSendExchanges(exch[self])
  THEN \* None.as_message() raises AttributeError
       Dropped(self, TRUE, Quiet(net))
  ELSE Dropped(self, FALSE,
               Send(net, self, sender,
                    ExchangeMsg("PROTECT_INDEX_REPLY", exch[self])))

\* @MessageHandler(msg.PROTECT_INDEX_REPLY)
protect_index_reply(self, sender, m, net) ==
  IF ~rc_open(cache[self], sender) THEN Dropped(self, FALSE, Quiet(net))
  ELSE IF cache[self][sender].chain = <<>>
  THEN \* from_blocks(None) raises TypeError
       Dropped(self, TRUE, Quiet(net))
  ELSE \E exchanges \in {ExchangesFromMessage(m.exch)} :
       \E partner_index \in
            {IndexAdd(SumIndexes(EmptyIndex, exchanges),
                      from_blocks(cache[self][sender].chain[1]))} :
       \E own_index \in {from_blocks(get_all_blocks(db[self]))} :
         Effect(self, db[self],
                rc_set_index(cache[self], sender, partner_index),
                exch[self], ignore[self], FALSE,
                Send(net, self, sender,
                     IndexMsg("PROTECT_BLOCKS_REQUEST",
                              IndexSub(partner_index, own_index))))

\* A PROTECT_BLOCKS_REQUEST handler that serves any sender, in a session or
\* not.
protect_blocks_request_open(self, sender, m, net) ==
  LET index  == IndexFromMessage(m.index)
      blocks == db_index(db[self], index)
  IN  Effect(self, db[self],
             IF rc_open(cache[self], sender)
             THEN rc_set_transfer_up(cache[self], sender, index)
             ELSE cache[self],
             exch[self], ignore[self], FALSE,
             Send(net, self, sender,
                  DatabaseMsg("PROTECT_BLOCKS_REPLY", blocks)))

\* @MessageHandler(msg.PROTECT_BLOCKS_REQUEST)
protect_blocks_request(self, sender, m, net) ==
  IF ~rc_open(cache[self], sender) THEN Dropped(self, FALSE, Quiet(net))
  ELSE \E index \in {IndexFromMessage(m.index)} :
       \E blocks \in {db_index(db[self], index)} :
         Effect(self, db[self],
                rc_set_transfer_up(cache[self], sender, index),
                exch[self], ignore[self], FALSE,
                Send(net, self, sender,
                     DatabaseMsg("PROTECT_BLOCKS_REPLY", blocks)))

\* A responder that sends every block of its store along with its chain.
protect_blocks_reply_all(self, sender, m, net) ==
  IF ~rc_open(cache[self], sender) THEN Dropped(self, FALSE, Quiet(net))
  ELSE IF cache[self][sender].index = <<>>
       THEN Dropped(self, TRUE, Quiet(net))
       ELSE \E own_chain \in {get_chain(db[self], self)} :
            \E own_index \in {from_blocks(get_all_blocks(db[self]))} :
            \E partner_index \in {cache[self][sender].index[1]} :
            \E transfer_down \in {IndexSub(own_index, partner_index)} :
            \E sub_database \in {db_index(db[self], own_index)} :
              Effect(self, db[self],
                     rc_set_transfer_down(cache[self], sender, transfer_down),
                     exch[self], ignore[self], FALSE,
                     Send(net, self, sender,
                          ChainAndBlocksMsg("PROTECT_CHAIN_BLOCKS",
                                            own_chain, sub_database)))

\* @MessageHandler(msg.PROTECT_BLOCKS_REPLY)
protect_blocks_reply(self, sender, m, net) ==
  IF ~rc_open(cache[self], sender) THEN Dropped(self, FALSE, Quiet(net))
  ELSE LET blocks == BlocksFromMessage(m.blocks)
       IN  IF verify_blocks(blocks)
           THEN IF cache[self][sender].index = <<>>
                THEN \* own_index - None raises AttributeError
                     Dropped(self, TRUE, Quiet(net))
                ELSE \E own_chain \in {get_chain(db[self], self)} :
                     \E own_index \in {from_blocks(get_all_blocks(db[self]))} :
                     \E partner_index \in {cache[self][sender].index[1]} :
                     \E transfer_down \in {IndexSub(own_index, partner_index)} :
                     \E sub_database \in {db_index(db[self], transfer_down)} :
                       Effect(self, db[self],
                              rc_set_transfer_down(cache[self], sender,
                                                   transfer_down),
                              exch[self], ignore[self], FALSE,
                              Send(net, self, sender,
                                   ChainAndBlocksMsg("PROTECT_CHAIN_BLOCKS",
                                                     own_chain, sub_database)))
           ELSE Effect(self, db[self], cache[self], exch[self],
                       Append(ignore[self], sender), FALSE,
                       Send(net, self, sender, Reject))

\* An initiator that does not record its proposal in the exchange storage.
proect_chain_blocks_unrecorded(self, sender, m, net) ==
  IF ~rc_open(cache[self], sender) THEN Dropped(self, FALSE, Quiet(net))
  ELSE \E blocks \in {BlocksFromMessage(m.blocks)} :
       \E transfer_down \in {from_blocks(blocks)} :
           IF cache[self][sender].transfer_up = <<>>
              \/ ~KnownPartner(self, sender)
           THEN Dropped(self, TRUE, Quiet(net))
           ELSE \E transfer_up \in {cache[self][sender].transfer_up[1]} :
                \E payload \in {ExchangeTx(db_pack(transfer_up),
                                           db_pack(transfer_down))} :
                \E new_block \in
                     {create_new(db[self], self, sender, payload)} :
                  Effect(self, db_add(db[self], new_block), cache[self],
                         exch[self], ignore[self], FALSE,
                         Send(net, self, sender,
                              BlockMsg("PROTECT_BLOCK_PROPOSAL", new_block)))

\* An initiator that writes the two transfer indexes into each other's
\* payload field.
proect_chain_blocks_swapped(self, sender, m, net) ==
  IF ~rc_open(cache[self], sender) THEN Dropped(self, FALSE, Quiet(net))
  ELSE \E blocks \in {BlocksFromMessage(m.blocks)} :
       \E transfer_down \in {from_blocks(blocks)} :
           IF cache[self][sender].transfer_up = <<>>
              \/ ~KnownPartner(self, sender)
           THEN Dropped(self, TRUE, Quiet(net))
           ELSE \E transfer_up \in {cache[self][sender].transfer_up[1]} :
                \E payload \in {ExchangeTx(db_pack(transfer_down),
                                           db_pack(transfer_up))} :
                \E new_block \in
                     {create_new(db[self], self, sender, payload)} :
                  Effect(self, db_add(db[self], new_block), cache[self],
                         add_exchange(exch[self], new_block, <<transfer_up>>),
                         ignore[self], FALSE,
                         Send(net, self, sender,
                              BlockMsg("PROTECT_BLOCK_PROPOSAL", new_block)))

\* @MessageHandler(msg.PROTECT_CHAIN_BLOCKS)
proect_chain_blocks(self, sender, m, net) ==
  IF ~rc_open(cache[self], sender) THEN Dropped(self, FALSE, Quiet(net))
  ELSE \E blocks \in {BlocksFromMessage(m.blocks)} :
       \E transfer_down \in {from_blocks(blocks)} :
           IF verify_chain_and_blocks(blocks)
           THEN IF cache[self][sender].transfer_up = <<>>
                   \/ ~KnownPartner(self, sender)
                THEN \* None.db_pack() or None.public_key raises AttributeError
                     Dropped(self, TRUE, Quiet(net))
                ELSE \E transfer_up \in {cache[self][sender].transfer_up[1]} :
                     \E payload \in {ExchangeTx(db_pack(transfer_up),
                                                db_pack(transfer_down))} :
                     \E new_block \in
                          {create_new(db[self], self, sender, payload)} :
                       Effect(self, db_add(db[self], new_block), cache[self],
                              add_exchange(exch[self], new_block,
                                           <<transfer_up>>),
                              ignore[self], FALSE,
                              Send(net, self, sender,
                                   BlockMsg("PROTECT_BLOCK_PROPOSAL", new_block)))
           ELSE Effect(self, db[self], cache[self], exch[self],
                       Append(ignore[self], sender), FALSE,
                       Send(net, self, sender, Reject))

\* A responder that signs the agreement without storing the proposal.
protect_block_proposal_unstored(self, sender, m, net) ==
  IF ~rc_open(cache[self], sender) THEN Dropped(self, FALSE, Quiet(net))
  ELSE \E block \in {BlockFromMessage(m.blocks[1])} :
       \E new_block \in {create_linked(db[self], self, block)} :
         Effect(self, db_add(db[self], new_block),
                rc_remove(cache[self], sender),
                add_exchange(exch[self], new_block,
                             cache[self][sender].transfer_down),
                ignore[self], FALSE,
                Send(net, self, sender,
                     BlockMsg("PROTECT_BLOCK_AGREEMENT", new_block)))

\* A responder that records the request's transfer_up for its agreement.
protect_block_proposal_records_up(self, sender, m, net) ==
  IF ~rc_open(cache[self], sender) THEN Dropped(self, FALSE, Quiet(net))
  ELSE \E block \in {BlockFromMessage(m.blocks[1])} :
       \E D \in {db_add(db[self], block)} :
       \E new_block \in {create_linked(D, self, block)} :
           Effect(self, db_add(D, new_block), rc_remove(cache[self], sender),
                  add_exchange(exch[self], new_block,
                               cache[self][sender].transfer_up),
                  ignore[self], FALSE,
                  Send(net, self, sender,
                       BlockMsg("PROTECT_BLOCK_AGREEMENT", new_block)))

\* @MessageHandler(msg.PROTECT_BLOCK_PROPOSAL)
protect_block_proposal(self, sender, m, net) ==
  IF ~rc_open(cache[self], sender) THEN Dropped(self, FALSE, Quiet(net))
  ELSE \E block \in {BlockFromMessage(m.blocks[1])} :
       \E D \in {db_add(db[self], block)} :
       \E new_block \in {create_linked(D, self, block)} :
           Effect(self, db_add(D, new_block), rc_remove(cache[self], sender),
                  add_exchange(exch[self], new_block,
                               cache[self][sender].transfer_down),
                  ignore[self], FALSE,
                  Send(net, self, sender,
                       BlockMsg("PROTECT_BLOCK_AGREEMENT", new_block)))

\* BaseAgent.request_interaction: the partners random.choice may return when
\* none is given.
InteractionPartners(self, sender) ==
  IF KnownPartner(self, sender) THEN {sender} ELSE agents[self] \ {self}

\* An initiator that stores the agreement and starts the interaction but
\* leaves its request open.
protect_block_agreement_keeps(self, sender, m, net) ==
  IF ~rc_open(cache[self], sender) THEN Dropped(self, FALSE, Quiet(net))
  ELSE \E block \in {BlockFromMessage(m.blocks[1])} :
       \E D \in {db_add(db[self], block)} :
       \E partner \in InteractionPartners(self, sender) :
       \E new_block \in {create_new(D, self, partner, NoTx)} :
         Effect(self, db_add(D, new_block), cache[self], exch[self],
                ignore[self], FALSE,
                Send(net, self, partner, BlockMsg("BLOCK_PROPOSAL", new_block)))

\* @MessageHandler(msg.PROTECT_BLOCK_AGREEMENT)
protect_block_agreement(self, sender, m, net) ==
  IF ~rc_open(cache[self], sender) THEN Dropped(self, FALSE, Quiet(net))
  ELSE \E block \in {BlockFromMessage(m.blocks[1])} :
       \E D \in {db_add(db[self], block)} :
           IF InteractionPartners(self, sender) = {}
           THEN \* random.choice of an empty list raises IndexError
                Effect(self, D, cache[self], exch[self], ignore[self], TRUE, Quiet(net))
           ELSE \E partner \in InteractionPartners(self, sender) :
                \E new_block \in {create_new(D, self, partner, NoTx)} :
                      Effect(self, db_add(D, new_block),
                             rc_remove(cache[self], sender), exch[self],
                             ignore[self], FALSE,
                             Send(net, self, partner,
                                  BlockMsg("BLOCK_PROPOSAL", new_block)))

\* A PROTECT_REJECT handler that keeps the request it should remove.
protect_reject_keeps(self, sender, m, net) ==
  Dropped(self, FALSE, Quiet(net))

\* A PROTECT_REJECT handler that also takes the rejecting peer for a fraud.
protect_reject_ignores(self, sender, m, net) ==
  IF ~rc_open(cache[self], sender) THEN Dropped(self, FALSE, Quiet(net))
  ELSE Effect(self, db[self], rc_remove(cache[self], sender), exch[self],
              Append(ignore[self], sender), FALSE, Quiet(net))

\* A PROTECT_REJECT handler that also forgives the rejecting peer.
protect_reject_forgives(self, sender, m, net) ==
  IF ~rc_open(cache[self], sender) THEN Dropped(self, FALSE, Quiet(net))
  ELSE Effect(self, db[self], rc_remove(cache[self], sender), exch[self],
              SelectSeq(ignore[self], LAMBDA x : x # sender), FALSE,
              Quiet(net))

\* A PROTECT_REJECT handler that gives up every open request.
protect_reject_clears(self, sender, m, net) ==
  IF ~rc_open(cache[self], sender) THEN Dropped(self, FALSE, Quiet(net))
  ELSE Effect(self, db[self], NoRequests, exch[self], ignore[self], FALSE,
              Quiet(net))

\* @MessageHandler(msg.PROTECT_REJECT)
protect_reject(self, sender, m, net) ==
  IF ~rc_open(cache[self], sender) THEN Dropped(self, FALSE, Quiet(net))
  ELSE Effect(self, db[self], rc_remove(cache[self], sender), exch[self],
              ignore[self], FALSE, Quiet(net))

\* @MessageHandler(msg.BLOCK_PROPOSAL)
block_proposal(self, sender, m, net) ==
  \E block \in {BlockFromMessage(m.blocks[1])} :
  \E D \in {db_add(db[self], block)} :
  \E new_block \in {create_linked(D, self, block)} :
      Effect(self, db_add(D, new_block), cache[self], exch[self], ignore[self],
             FALSE,
             Send(net, self, sender, BlockMsg("BLOCK_AGREEMENT", new_block)))

\* @MessageHandler(msg.BLOCK_AGREEMENT)
block_confirm(self, sender, m, net) ==
  LET block == BlockFromMessage(m.blocks[1])
  IN  Effect(self, db_add(db[self], block), cache[self], exch[self],
             ignore[self], FALSE, Quiet(net))

----------------------------------------------------------------------------
(* The agent's own steps *)

PairSets == {{c[1], c[2]} : c \in Channels}

\* Exchange blocks of a and b with each other that either of them stores.
ExchangeBlocksBetween(a, b) ==
  Cardinality({x \in db[a] \cup db[b] :
                 x.tx.exchange /\ {x.pk, x.lpk} = {a, b}})

ChainInFlight(s, d) ==
  \E i \in DOMAIN chan[<<s, d>>] : chan[<<s, d>>][i].type = "PROTECT_CHAIN"

\* @MessageHandler(msg.AGENT_REPLY): the directory's answer to the one
\* AGENT_REQUEST the agent sends after registering.
set_agents(self) ==
  /\ self \in directory
  /\ agents' = [agents EXCEPT ![self] = directory]
  /\ sent' = <<>>
  /\ UNCHANGED <<db, cache, exch, ignore, directory, chan, dup, err, ticks,
                 faults, coll, accepted, call>>

\* A request_protect that does not look at its request cache and ignore
\* list.
request_protect_insistent(self, partner) ==
  /\ self \in directory
  /\ partner \in agents[self] \ {self}
  /\ ticks > 0
  /\ LET chain == get_chain(db[self], self)
         out   == Send(chan, self, partner, DatabaseMsg("PROTECT_CHAIN", chain))
     IN  /\ cache' = [cache EXCEPT ![self] = rc_new(cache[self], partner, <<>>)]
         /\ chan' = out.net
         /\ sent' = out.sent
         /\ ticks' = ticks - 1
         /\ coll' = [coll EXCEPT ![{self, partner}] =
                       IF ChainInFlight(partner, self)
                       THEN <<ExchangeBlocksBetween(self, partner)>>
                       ELSE <<>>]
         /\ UNCHANGED <<db, exch, ignore, agents, directory, dup, err,
                        faults, accepted, call>>

\* ProtectSimpleAgent.step -> request_protect(), with the partner that
\* random.choice returned.
request_protect(self, partner) ==
  /\ self \in directory
  /\ partner \in agents[self] \ {self}
  /\ ticks > 0
  /\ IF rc_open(cache[self], partner) \/ partner \in Range(ignore[self])
     THEN /\ sent' = <<>>
          /\ UNCHANGED <<db, cache, exch, ignore, agents, directory, chan,
                         dup, err, ticks, faults, coll, accepted, call>>
     ELSE LET chain == get_chain(db[self], self)
              out   == Send(chan, self, partner,
                            DatabaseMsg("PROTECT_CHAIN", chain))
          IN  /\ cache' = [cache EXCEPT
                             ![self] = rc_new(cache[self], partner, <<>>)]
              /\ chan' = out.net
              /\ sent' = out.sent
              /\ ticks' = ticks - 1
              /\ coll' = [coll EXCEPT ![{self, partner}] =
                            IF ChainInFlight(partner, self)
                            THEN <<ExchangeBlocksBetween(self, partner)>>
                            ELSE <<>>]
              /\ UNCHANGED <<db, exch, ignore, agents, directory, dup, err,
                             faults, accepted, call>>

----------------------------------------------------------------------------
(* Delivery.  A message reaches its handler from the head of its channel   *)
(* ("fifo"), from the head of its channel without leaving it, so that it   *)
(* is delivered once more ("dup": the transport delivers at least once),   *)
(* or from a peer that does not follow the protocol ("forged").            *)

Modes == {"fifo", "dup", "forged"}

ForgedChains(s) ==
  { <<>>,
    <<Genesis(s)>>,
    <<Genesis(s), Blk(s, 3, EMPTY_PK, UNKNOWN_SEQ, NoTx)>> }

Forged(type, s, d) ==
  CASE type = "PROTECT_CHAIN" ->
         {DatabaseMsg(type, c) : c \in ForgedChains(s)}
    [] type = "PROTECT_BLOCKS_REQUEST" ->
         {IndexMsg(type, <<(<<d, <<GENESIS_SEQ>> >>)>>)}
    [] type = "PROTECT_CHAIN_BLOCKS" ->
         {ChainAndBlocksMsg(type, <<Genesis(s)>>, <<Genesis(s)>>)}
    [] type = "PROTECT_BLOCK_PROPOSAL" ->
         {BlockMsg(type, Blk(s, 2, d, UNKNOWN_SEQ,
                             ExchangeTx(EmptyIndex, EmptyIndex)))}
    [] type = "PROTECT_BLOCK_AGREEMENT" ->
         {BlockMsg(type, Blk(s, 2, d, 2, ExchangeTx(EmptyIndex, EmptyIndex)))}
    [] type = "BLOCK_PROPOSAL" ->
         {BlockMsg(type, Blk(s, 2, d, UNKNOWN_SEQ, NoTx))}
    [] type = "BLOCK_AGREEMENT" ->
         {BlockMsg(type, Blk(s, 2, d, 2, NoTx))}
    [] OTHER -> {Message(type)}

HeadIs(type, s, d) ==
  <<s, d>> \in Channels /\ chan[<<s, d>>] # <<>>
  /\ Head(chan[<<s, d>>]).type = type

Incoming(mode, type, s, d) ==
  CASE mode = "fifo" ->
         IF HeadIs(type, s, d) THEN {Head(chan[<<s, d>>])} ELSE {}
    [] mode = "dup" ->
         IF faults > 0 /\ HeadIs(type, s, d) /\ dup[<<s, d>>] = <<>>
         THEN {Head(chan[<<s, d>>])} ELSE {}
    [] mode = "forged" ->
         IF faults > 0 THEN Forged(type, s, d) ELSE {}

\* The stores of agent d.
Stores(d) ==
  [db |-> db[d], cache |-> cache[d], exch |-> exch[d], ignore |-> ignore[d]]

NetAfter(mode, s, d) ==
  IF mode = "fifo" THEN [chan EXCEPT ![<<s, d>>] = Tail(@)] ELSE chan

\* r has just accepted i's PROTECT_CHAIN: its last step sent i the
\* PROTECT_INDEX_REQUEST.
Accepted(i, r) ==
  sent = <<[src |-> r, dst |-> i, msg |-> Message("PROTECT_INDEX_REQUEST")]>>

Account(mode, s, d) ==
  /\ faults' = IF mode = "fifo" THEN faults ELSE faults - 1
  /\ dup' = CASE mode = "fifo" -> [dup EXCEPT ![<<s, d>>] = <<>>]
              [] mode = "dup" -> [dup EXCEPT ![<<s, d>>] = <<Stores(d)'>>]
              [] OTHER -> dup
  /\ accepted' = IF Accepted(s, d)' THEN [accepted EXCEPT ![<<s, d>>] = @ + 1] ELSE accepted
  /\ UNCHANGED <<agents, directory, ticks, coll, call>>

\* MessageProcessor.handle: the handler registered for the message's type.
Handler(type, self, sender, m, net) ==
  CASE type = "PROTECT_CHAIN" -> protect_chain(self, sender, m, net)
    [] type = "PROTECT_INDEX_REQUEST" ->
         protect_index_request(self, sender, m, net)
    [] type = "PROTECT_INDEX_REPLY" ->
         protect_index_reply(self, sender, m, net)
    [] type = "PROTECT_BLOCKS_REQUEST" ->
         protect_blocks_request(self, sender, m, net)
    [] type = "PROTECT_BLOCKS_REPLY" ->
         protect_blocks_reply(self, sender, m, net)
    [] type = "PROTECT_CHAIN_BLOCKS" ->
         proect_chain_blocks(self, sender, m, net)
    [] type = "PROTECT_BLOCK_PROPOSAL" ->
         protect_block_proposal(self, sender, m, net)
    [] type = "PROTECT_BLOCK_AGREEMENT" ->
         protect_block_agreement(self, sender, m, net)
    [] type = "PROTECT_REJECT" -> protect_reject(self, sender, m, net)
    [] type = "BLOCK_PROPOSAL" -> block_proposal(self, sender, m, net)
    [] type = "BLOCK_AGREEMENT" -> block_confirm(self, sender, m, net)

\* One delivery: agent d handles message m of the given type from s.
DeliverMsg(type, mode, s, d, m) ==
  /\ d \in directory
  /\ s # d
  /\ m \in Incoming(mode, type, s, d)
  /\ Handler(type, d, s, m, NetAfter(mode, s, d))
  /\ Account(mode, s, d)

Deliver(type, s, d) ==
  \E mode \in Modes :
    \E m \in Incoming(mode, type, s, d) : DeliverMsg(type, mode, s, d, m)

Recv_PROTECT_CHAIN(s, d) == Deliver("PROTECT_CHAIN", s, d)

Recv_PROTECT_INDEX_REQUEST(s, d) ==
  Deliver("PROTECT_INDEX_REQUEST", s, d)

Recv_PROTECT_INDEX_REPLY(s, d) ==
  Deliver("PROTECT_INDEX_REPLY", s, d)

Recv_PROTECT_BLOCKS_REQUEST(s, d) ==
  Deliver("PROTECT_BLOCKS_REQUEST", s, d)

Recv_PROTECT_BLOCKS_REPLY(s, d) ==
  Deliver("PROTECT_BLOCKS_REPLY", s, d)

Recv_PROTECT_CHAIN_BLOCKS(s, d) ==
  Deliver("PROTECT_CHAIN_BLOCKS", s, d)

Recv_PROTECT_BLOCK_PROPOSAL(s, d) ==
  Deliver("PROTECT_BLOCK_PROPOSAL", s, d)

Recv_PROTECT_BLOCK_AGREEMENT(s, d) ==
  Deliver("PROTECT_BLOCK_AGREEMENT", s, d)

Recv_PROTECT_REJECT(s, d) == Deliver("PROTECT_REJECT", s, d)

Recv_BLOCK_PROPOSAL(s, d) == Deliver("BLOCK_PROPOSAL", s, d)

Recv_BLOCK_AGREEMENT(s, d) == Deliver("BLOCK_AGREEMENT", s, d)

----------------------------------------------------------------------------
(* Specifications *)

\* After setup() and the directory's reply, which run() asks for before the
\* first step(): every agent holds its genesis block and nothing else.
\* No function of the library is called on its own.
NoCall == [fn |-> "", args |-> <<>>, out |-> <<>>]

InitAgents ==
  /\ db = [a \in Agents |-> {Genesis(a)}]
  /\ cache = [a \in Agents |-> NoRequests]
  /\ exch = [a \in Agents |-> {}]
  /\ ignore = [a \in Agents |-> <<>>]
  /\ agents = [a \in Agents |-> IF a \in directory THEN directory ELSE {}]
  /\ chan = [c \in Channels |-> <<>>]
  /\ sent = <<>>
  /\ dup = [c \in Channels |-> <<>>]
  /\ err = {}
  /\ coll = [pr \in PairSets |-> <<>>]
  /\ accepted = [c \in Channels |-> 0]
  /\ call = NoCall

\* Two agents on a network that duplicates messages and carries messages
\* of peers that do not follow the protocol, under any sender address.
Init ==
  /\ directory = {1, 2}
  /\ InitAgents
  /\ ticks = FaultyTicks
  /\ faults = MaxFaults

\* Honest agents only, every message delivered exactly once.
InitHonest ==
  /\ directory = {1, 2, 3}
  /\ InitAgents
  /\ ticks = MaxTicks
  /\ faults = 0

\* self.com.start(self.handle): agent d handles a message from s.
Receive(s, d) ==
  \/ Recv_PROTECT_CHAIN(s, d)
  \/ Recv_PROTECT_INDEX_REQUEST(s, d)
  \/ Recv_PROTECT_INDEX_REPLY(s, d)
  \/ Recv_PROTECT_BLOCKS_REQUEST(s, d)
  \/ Recv_PROTECT_BLOCKS_REPLY(s, d)
  \/ Recv_PROTECT_CHAIN_BLOCKS(s, d)
  \/ Recv_PROTECT_BLOCK_PROPOSAL(s, d)
  \/ Recv_PROTECT_BLOCK_AGREEMENT(s, d)
  \/ Recv_PROTECT_REJECT(s, d)
  \/ Recv_BLOCK_PROPOSAL(s, d)
  \/ Recv_BLOCK_AGREEMENT(s, d)

Next ==
  \/ \E a \in Agents : set_agents(a)
  \/ \E a \in Agents, p \in Agents : request_protect(a, p)
  \/ \E s \in Agents, d \in Agents : Receive(s, d)

Spec == Init /\ [][Next]_vars

SpecHonest == InitHonest /\ [][Next]_vars

\* The IO loop runs for as long as the agent does: a message that waits at
\* the head of a channel is handled.
Fairness == \A c \in Channels : WF_vars(Receive(c[1], c[2]))

SpecLive == InitHonest /\ [][Next]_vars /\ Fairness

----------------------------------------------------------------------------
(* The functions of BlockIndex, Block and verify_chain called on their own, *)
(* on arguments drawn from bounded sets.                                    *)

\* Lists of distinct sequence numbers, in any order, the empty list included
\* (an entry decoded from a message may carry none).
SeqLists ==
  {l \in UNION {[1..n -> 1..MaxSeq] : n \in 0..MaxSeq} :
     \A i, j \in DOMAIN l : l[i] = l[j] => i = j}

\* The indexes of the example of the BlockIndex algebra, p, q, r = 1, 2, 3.
ExampleA == << <<1, <<1, 2, 3>> >>, <<2, <<5>> >> >>
ExampleB == << <<1, <<2>> >>, <<2, <<5, 6>> >>, <<3, <<1>> >> >>

\* Indexes: entries in any order, each key at most once.
Indexes ==
  {x \in UNION {[1..n -> (1..MaxKey) \X SeqLists] : n \in 0..MaxKey} :
     \A i, j \in DOMAIN x : x[i][1] = x[j][1] => i = j}
  \cup {ExampleA, ExampleB}

\* Payloads of exchange blocks.
Payloads ==
  {ExchangeTx(db_pack(<< <<1, <<1>> >> >>), db_pack(<< <<2, <<1, 2>> >> >>)),
   ExchangeTx(db_pack(<< <<1, <<1>> >> >>), <<>>)}

\* Blocks of chains: base blocks, exchange proposals and exchange
\* agreements of the public keys 1..MaxKey.
ChainBlocks ==
  {Blk(pk, seq, EMPTY_PK, UNKNOWN_SEQ, NoTx) : pk \in 1..MaxKey, seq \in 1..MaxChain}
  \cup {Blk(pk, seq, 3, lseq, tx) :
          pk \in 1..MaxKey, seq \in 1..MaxChain,
          lseq \in {UNKNOWN_SEQ, 2}, tx \in Payloads}

Chains == UNION {[1..n -> ChainBlocks] : n \in 0..MaxChain}

\* The return values of time.time(); insert_time is None or one of them.
Times == {7, 8}

FullBlocks ==
  [transaction : {NoTx} \cup Payloads, public_key : 1..MaxKey,
   sequence_number : 1..2, link_public_key : {EMPTY_PK, 3},
   link_sequence_number : {UNKNOWN_SEQ, 2},
   previous_hash : {"GENESIS_HASH", "h"}, signature : {"EMPTY_SIG", "s"},
   insert_time : {<<>>, <<7>>}]

Arguments ==
  {[self |-> a, other |-> b] : a \in Indexes, b \in Indexes}
  \cup {[chain |-> c] : c \in Chains}
  \cup {[block |-> b] : b \in FullBlocks}

\* No agent runs; one function is about to be called on some arguments.
InitFunctions ==
  /\ directory = {}
  /\ db = [a \in Agents |-> {Genesis(a)}]
  /\ cache = [a \in Agents |-> NoRequests]
  /\ exch = [a \in Agents |-> {}]
  /\ ignore = [a \in Agents |-> <<>>]
  /\ agents = [a \in Agents |-> {}]
  /\ chan = [c \in Channels |-> <<>>]
  /\ sent = <<>>
  /\ dup = [c \in Channels |-> <<>>]
  /\ err = {}
  /\ coll = [pr \in PairSets |-> <<>>]
  /\ accepted = [c \in Channels |-> 0]
  /\ ticks = 0
  /\ faults = 0
  /\ call \in {[fn |-> "", args |-> a, out |-> <<>>] : a \in Arguments}

\* The function fn is called on the arguments and returns out.
Returns(fn, out) ==
  /\ call.fn = ""
  /\ call' = [call EXCEPT !.fn = fn, !.out = out]
  /\ UNCHANGED <<db, cache, exch, ignore, agents, directory, chan, sent, dup,
                 err, ticks, faults, coll, accepted>>

OnIndexes == DOMAIN call.args = {"self", "other"}
OnChain == DOMAIN call.args = {"chain"}
OnBlock == DOMAIN call.args = {"block"}

\* self - other
Call_sub ==
  OnIndexes /\ Returns("__sub__", IndexSub(call.args.self, call.args.other))

\* self + other
Call_add ==
  OnIndexes /\ Returns("__add__", IndexAdd(call.args.self, call.args.other))

\* (self + other) - other
Call_add_sub ==
  /\ OnIndexes
  /\ Returns("(A + B) - B",
             IndexSub(IndexAdd(call.args.self, call.args.other),
                      call.args.other))

\* self + self
Call_add_self ==
  OnIndexes /\ Returns("A + A", IndexAdd(call.args.self, call.args.self))

\* self - self
Call_sub_self ==
  OnIndexes /\ Returns("A - A", IndexSub(call.args.self, call.args.self))

\* BlockIndex.from_message(self.as_message())
Call_index_round_trip ==
  /\ OnIndexes
  /\ Returns("BlockIndex.from_message",
             IndexFromMessage(IndexAsMessage(call.args.self)))

\* BlockIndex.from_chain(chain)
Call_from_chain == OnChain /\ Returns("from_chain", from_chain(call.args.chain))

\* verify_chain(chain); max() of an empty sequence raises ValueError.
Call_verify_chain ==
  /\ OnChain
  /\ Returns("verify_chain",
             IF call.args.chain = <<>> THEN "ValueError"
             ELSE IF verify_chain(call.args.chain) THEN "True" ELSE "False")

\* Block.from_message(block.as_message())
Call_block_round_trip ==
  /\ OnBlock
  /\ \E now \in Times :
       Returns("Block.from_message",
               from_message(as_message(call.args.block), now))

NextFunctions ==
  \/ Call_sub
  \/ Call_add
  \/ Call_add_sub
  \/ Call_add_self
  \/ Call_sub_self
  \/ Call_index_round_trip
  \/ Call_from_chain
  \/ Call_verify_chain
  \/ Call_block_round_trip

SpecFunctions == InitFunctions /\ [][NextFunctions]_vars

----------------------------------------------------------------------------
(* Vocabulary of the claims *)

\* The steps in which agent d handles message m of the given type from s.
Handles(type, s, d, m) ==
  \E mode \in Modes : DeliverMsg(type, mode, s, d, m)

\* The messages of a type that can reach d from s in the current state.
Arriving(type, s, d) ==
  UNION {Incoming(mode, type, s, d) : mode \in Modes}

\* The agent's stores are as they were.
Untouched(d) ==
  /\ db'[d] = db[d]
  /\ cache'[d] = cache[d]
  /\ exch'[d] = exch[d]
  /\ ignore'[d] = ignore[d]

OneReject(d, s) == <<[src |-> d, dst |-> s, msg |-> Reject]>>

\* The sequence numbers of a chain are exactly 1..N, N its length.
IsOneToN(seqs) ==
  \A n \in 1..Len(seqs) : Cardinality({i \in DOMAIN seqs : seqs[i] = n}) = 1

WireSeqs(m) == [i \in DOMAIN m.blocks |-> m.blocks[i].sequence_number]

\* db_pack undone: the index a payload field declares.
UnpackIndex(packed) ==
  [i \in DOMAIN packed |-> <<HexDecode(packed[i][1]), packed[i][2]>>]

----------------------------------------------------------------------------
(* Claims *)

\* C1: once initiator i has stored responder r's exchange agreement, r's
\* store holds every block i uploaded in PROTECT_BLOCKS_REPLY (the stored
\* blocks of the agreed transfer_up) and i's store holds every block r sent
\* in PROTECT_CHAIN_BLOCKS (the blocks of the agreed transfer_down).
C1_TransferredBlocksStored ==
  \A c \in Channels :
    LET i == c[1]
        r == c[2]
    IN  \A a \in db[i] :
          (a.pk = r /\ a.lpk = i /\ a.lseq # UNKNOWN_SEQ /\ a.tx.exchange)
          => /\ \A pr \in Pairs(UnpackIndex(a.tx.up)) :
                  HasBlock(db[i], pr[1], pr[2]) => HasBlock(db[r], pr[1], pr[2])
             /\ \A pr \in Pairs(UnpackIndex(a.tx.down)) :
                  HasBlock(db[i], pr[1], pr[2])

\* C2: a PROTECT_CHAIN whose sequence numbers are not exactly 1..N, from a
\* sender with no open request that is not ignored, is answered with one
\* PROTECT_REJECT and nothing else, and the sender joins the ignore list.
C2_BadChainRejected ==
  [][\A c \in Channels :
       (~rc_open(cache[c[2]], c[1]) /\ c[1] \notin Range(ignore[c[2]]))
       => \/ /\ sent' = OneReject(c[2], c[1])
             /\ ignore'[c[2]] = Append(ignore[c[2]], c[1])
          \/ \A m \in Arriving("PROTECT_CHAIN", c[1], c[2]) :
               ~IsOneToN(WireSeqs(m))
               => ~Handles("PROTECT_CHAIN", c[1], c[2], m)]_vars

C2_Witness ==
  \E c \in Channels :
    /\ sent = OneReject(c[2], c[1])
    /\ c[1] \in Range(ignore[c[2]])
    /\ rc_open(cache[c[2]], c[1])
    /\ cache[c[2]][c[1]].chain # <<>>
    /\ ~IsOneToN([i \in DOMAIN cache[c[2]][c[1]].chain[1] |->
                    cache[c[2]][c[1]].chain[1][i].seq])

\* C3: a PROTECT_CHAIN from an ignored sender is answered with exactly one
\* PROTECT_REJECT and leaves the receiver's request cache, block store,
\* exchange storage and ignore list as they were.
C3_IgnoredSenderRejected ==
  [][\A c \in Channels :
       c[1] \in Range(ignore[c[2]])
       => \/ sent' = OneReject(c[2], c[1]) /\ Untouched(c[2])
          \/ \A m \in Arriving("PROTECT_CHAIN", c[1], c[2]) :
               ~Handles("PROTECT_CHAIN", c[1], c[2], m)]_vars

\* The REJECT of the ignore-list branch: no request is open afterwards.
C3_Witness ==
  \E c \in Channels :
    /\ sent = OneReject(c[2], c[1])
    /\ c[1] \in Range(ignore[c[2]])
    /\ ~rc_open(cache[c[2]], c[1])

\* C4: when a and b collided (each sent PROTECT_CHAIN with the other's in
\* flight) and every message between them is delivered, neither holds a
\* request for the other, neither ignores the other, and they hold as many
\* exchange blocks of each other as when they collided.
C4_CollisionClears ==
  \A c \in Channels :
    ( /\ coll[{c[1], c[2]}] # <<>>
      /\ chan[<<c[1], c[2]>>] = <<>>
      /\ chan[<<c[2], c[1]>>] = <<>> )
    => /\ ~rc_open(cache[c[1]], c[2])
       /\ ~rc_open(cache[c[2]], c[1])
       /\ c[2] \notin Range(ignore[c[1]])
       /\ c[1] \notin Range(ignore[c[2]])
       /\ ExchangeBlocksBetween(c[1], c[2]) = coll[{c[1], c[2]}][1]

C4_Witness ==
  \E c \in Channels :
    /\ coll[{c[1], c[2]}] # <<>>
    /\ chan[<<c[1], c[2]>>] = <<>>
    /\ chan[<<c[2], c[1]>>] = <<>>


InSessionTypes ==
  {"PROTECT_INDEX_REQUEST", "PROTECT_INDEX_REPLY", "PROTECT_BLOCKS_REQUEST",
   "PROTECT_BLOCKS_REPLY", "PROTECT_CHAIN_BLOCKS", "PROTECT_BLOCK_PROPOSAL",
   "PROTECT_BLOCK_AGREEMENT", "PROTECT_REJECT"}

\* d handles m, a message of one of the eight in-session types, from s.
HandlesInSession(s, d, m) ==
  m.type \in InSessionTypes /\ Handles(m.type, s, d, m)

ArrivingInSession(s, d) == UNION {Arriving(t, s, d) : t \in InSessionTypes}

\* C5: an in-session message from a sender without a request cache entry is
\* dropped: nothing is sent and the receiver's request cache, block store,
\* exchange storage and ignore list stay as they were.
C5_OutOfSessionDropped ==
  [][\A c \in Channels :
       ~rc_open(cache[c[2]], c[1])
       => \/ sent' = <<>> /\ Untouched(c[2])
          \/ \A m \in ArrivingInSession(c[1], c[2]) :
               ~HandlesInSession(c[1], c[2], m)]_vars

\* A forged in-session message was handled in the initial state, and that
\* state is still the initial one.
C5_Witness ==
  /\ faults = MaxFaults - 1
  /\ ticks = FaultyTicks
  /\ sent = <<>>
  /\ \A a \in Agents :
       /\ db[a] = {Genesis(a)}
       /\ cache[a] = NoRequests
       /\ exch[a] = {}
       /\ ignore[a] = <<>>
  /\ \A c \in Channels : chan[c] = <<>>

\* C6: after a responder handled a PROTECT_CHAIN, from a sender with no open
\* request that is not ignored, whose chain fails verify_chain, it holds no
\* request cache entry for the sender.
C6_NoEntryAfterFailedVerification ==
  [][\A c \in Channels :
       (~rc_open(cache[c[2]], c[1]) /\ c[1] \notin Range(ignore[c[2]]))
       => \/ ~rc_open(cache'[c[2]], c[1])
          \/ \A m \in Arriving("PROTECT_CHAIN", c[1], c[2]) :
               (m.blocks # <<>> /\ ~verify_chain(BlocksFromMessage(m.blocks)))
               => ~Handles("PROTECT_CHAIN", c[1], c[2], m)]_vars

\* C7: a PROTECT_REJECT from a peer with an open request removes that
\* request and nothing else: ignore list, block store and exchange storage
\* stay as they were, and nothing is sent.
C7_RejectOnlyRemoves ==
  [][\A c \in Channels :
       rc_open(cache[c[2]], c[1])
       => \/ /\ cache'[c[2]] = rc_remove(cache[c[2]], c[1])
             /\ ~rc_open(cache'[c[2]], c[1])
             /\ ignore'[c[2]] = ignore[c[2]]
             /\ db'[c[2]] = db[c[2]]
             /\ exch'[c[2]] = exch[c[2]]
             /\ sent' = <<>>
          \/ \A m \in Arriving("PROTECT_REJECT", c[1], c[2]) :
               ~Handles("PROTECT_REJECT", c[1], c[2], m)]_vars

\* An initiator whose PROTECT_CHAIN is still in flight holds no request any
\* more and stored nothing: its request was removed by a PROTECT_REJECT.
C7_Witness ==
  \E c \in Channels :
    /\ ChainInFlight(c[1], c[2])
    /\ ~rc_open(cache[c[1]], c[2])
    /\ db[c[1]] = {Genesis(c[1])}

\* C8: a PROTECT_CHAIN from a peer with an open request is answered with one
\* PROTECT_REJECT; the sender does not join the ignore list and the request
\* cache, with the open entry's chain, index, transfer_up and transfer_down,
\* stays as it was.
C8_DuplicateSessionRejected ==
  [][\A c \in Channels :
       rc_open(cache[c[2]], c[1])
       => \/ /\ sent' = OneReject(c[2], c[1])
             /\ ignore'[c[2]] = ignore[c[2]]
             /\ rc_open(cache'[c[2]], c[1])
             /\ cache'[c[2]][c[1]] = cache[c[2]][c[1]]
             /\ cache'[c[2]] = cache[c[2]]
          \/ \A m \in Arriving("PROTECT_CHAIN", c[1], c[2]) :
               ~Handles("PROTECT_CHAIN", c[1], c[2], m)]_vars

\* The REJECT of the open-request branch, from an agent already in a later
\* state of the session (it has recorded the partner's index).
C8_Witness ==
  \E c \in Channels :
    /\ sent = OneReject(c[2], c[1])
    /\ c[1] \notin Range(ignore[c[2]])
    /\ rc_open(cache[c[2]], c[1])
    /\ cache[c[2]][c[1]].index # <<>>

\* C9: an address in an agent's ignore list is in it in every later state.
C9_IgnorePermanent ==
  [][\A a \in Agents : \A p \in Agents :
       p \in Range(ignore[a]) => p \in Range(ignore'[a])]_vars

\* An ignored peer whose stale request has since been removed: the agent
\* handled further messages after it ignored the peer.
C9_Witness ==
  \E c \in Channels :
    /\ c[1] \in Range(ignore[c[2]])
    /\ ~rc_open(cache[c[2]], c[1])
    /\ faults = 0

\* C10: the second delivery of a message to an agent whose stores are still
\* what the first delivery left leaves the agent's block store (its own
\* chain included), exchange storage, request cache and ignore list as they
\* were after the first delivery.
C10_SecondDeliveryChangesNothing ==
  [][\A c \in Channels :
       (dup[c] = <<Stores(c[2])>> /\ dup'[c] = <<>>)
       => Stores(c[2])' = dup[c][1]]_vars

\* The agreements of r to exchange proposals of i that i stores.
XAgreed(i, r) ==
  {a \in db[i] : a.pk = r /\ a.lpk = i /\ a.lseq # UNKNOWN_SEQ /\ a.tx.exchange}

\* The proposal half an agreement is linked to.
ProposalOf(a) == Blk(a.lpk, a.lseq, a.pk, UNKNOWN_SEQ, a.tx)

\* DONE on both sides of i's sessions with r, more than n of them: i stores
\* the agreements, r stores the proposals and its agreements, no request is
\* open.
Done(i, r, n) ==
  /\ Cardinality(XAgreed(i, r)) > n
  /\ \A a \in XAgreed(i, r) : a \in db[r] /\ ProposalOf(a) \in db[r]
  /\ ~rc_open(cache[i], r)
  /\ ~rc_open(cache[r], i)

\* The message that answers an in-session message of the given type.
Answer(type) ==
  CASE type = "PROTECT_CHAIN" -> "PROTECT_INDEX_REQUEST"
    [] type = "PROTECT_INDEX_REQUEST" -> "PROTECT_INDEX_REPLY"
    [] type = "PROTECT_INDEX_REPLY" -> "PROTECT_BLOCKS_REQUEST"
    [] type = "PROTECT_BLOCKS_REQUEST" -> "PROTECT_BLOCKS_REPLY"
    [] type = "PROTECT_BLOCKS_REPLY" -> "PROTECT_CHAIN_BLOCKS"
    [] type = "PROTECT_CHAIN_BLOCKS" -> "PROTECT_BLOCK_PROPOSAL"
    [] type = "PROTECT_BLOCK_PROPOSAL" -> "PROTECT_BLOCK_AGREEMENT"
    [] OTHER -> "BLOCK_PROPOSAL"

SessionTypes == InSessionTypes \ {"PROTECT_REJECT"}

\* i has just sent r its PROTECT_CHAIN, r has no request open with i, does
\* not ignore i and has no PROTECT_CHAIN to i in flight.
SentToIdle(i, r) ==
  /\ Len(sent) = 1
  /\ sent[1].src = i /\ sent[1].dst = r /\ sent[1].msg.type = "PROTECT_CHAIN"
  /\ ~rc_open(cache[r], i)
  /\ i \notin Range(ignore[r])
  /\ ~ChainInFlight(r, i)

\* The sessions i opened with r and r accepted are all DONE on both sides:
\* i stores an agreement of r for each, r stores every such agreement and
\* its proposal, and neither holds a request for the other.
AllDone(i, r) ==
  /\ Cardinality(XAgreed(i, r)) = accepted[<<i, r>>]
  /\ \A a \in XAgreed(i, r) : a \in db[r] /\ ProposalOf(a) \in db[r]
  /\ ~rc_open(cache[i], r)
  /\ ~rc_open(cache[r], i)

\* C11: on a network that delivers every message once and in order, (a) an
\* agent with an open request that handles message k of a session (1..7)
\* answers its sender with message k + 1 and nothing else, (b) when r
\* accepts a PROTECT_CHAIN of i, every earlier session of i with r is DONE
\* and this one is not, and (c) every accepted session eventually reaches
\* DONE on both sides: i stores one more agreement of r, r stores the
\* proposal and its agreement, and neither holds a request for the other.
C11_AcceptedSessionCompletes ==
  /\ [][\A c \in Channels :
          rc_open(cache[c[2]], c[1])
          => \/ /\ Len(sent') = 1
                /\ sent'[1].src = c[2] /\ sent'[1].dst = c[1]
                /\ \E t \in SessionTypes :
                     /\ HeadIs(t, c[1], c[2])
                     /\ sent'[1].msg.type = Answer(t)
             \/ \A m \in UNION {Arriving(t, c[1], c[2]) : t \in SessionTypes} :
                  ~Handles(m.type, c[1], c[2], m)]_vars
  /\ [](\A c \in Channels :
          /\ Cardinality(XAgreed(c[1], c[2])) <= accepted[c]
          /\ Accepted(c[1], c[2])
             => Cardinality(XAgreed(c[1], c[2])) = accepted[c] - 1)
  /\ <>[](\A c \in Channels : AllDone(c[1], c[2]))

\* Two sessions of the same initiator with the same responder are DONE and
\* no message is in flight.
C11_Witness ==
  \E c \in Channels :
    /\ AllDone(c[1], c[2])
    /\ accepted[c] = 2
    /\ \A k \in Channels : chan[k] = <<>>

\* C11 as stated, for the first session of agent 1 with agent 2: once 1
\* has sent its PROTECT_CHAIN to 2, which has no request open with 1, does
\* not ignore 1 and has no PROTECT_CHAIN to 1 in flight, the session reaches
\* DONE on both sides.
C11_SentSessionCompletes ==
  (SentToIdle(1, 2) /\ XAgreed(1, 2) = {}) ~> Done(1, 2, 0)

\* The genesis-only handshake S1 of a with b is complete: the chains of a and
\* b have three blocks each, a's second block is an exchange proposal to b,
\* and a stores b's agreement to its third block, a base proposal.
S1Complete(a, b) ==
  /\ NextSeq(db[a], a) = 4
  /\ NextSeq(db[b], b) = 4
  /\ HasBlock(db[a], a, 2)
  /\ BlockAt(db[a], a, 2).tx.exchange
  /\ BlockAt(db[a], a, 2).lpk = b
  /\ BlockAt(db[a], a, 2).lseq = UNKNOWN_SEQ
  /\ Blk(b, 3, a, 3, NoTx) \in db[a]

\* The four blocks S1 adds: A2 (exchange proposal), B2 (its agreement), A3
\* (base proposal), B3 (its agreement).
S1Blocks(a, b) ==
  { BlockAt(db[a], a, 2),
    Blk(b, 2, a, 2, BlockAt(db[a], a, 2).tx),
    Blk(a, 3, b, UNKNOWN_SEQ, NoTx),
    Blk(b, 3, a, 3, NoTx) }

\* C12: after the genesis-only handshake of a with b and the base interaction
\* that follows it, a's store is exactly {A1, A2, B2, A3, B3} and b's store
\* is its genesis block and the same four blocks.
C12_GenesisHandshakeStores ==
  \A c \in Channels :
    S1Complete(c[1], c[2])
    => /\ Cardinality(S1Blocks(c[1], c[2])) = 4
       /\ db[c[1]] = {Genesis(c[1])} \cup S1Blocks(c[1], c[2])
       /\ db[c[2]] = {Genesis(c[2])} \cup S1Blocks(c[1], c[2])

C12_Witness ==
  \E c \in Channels : S1Complete(c[1], c[2])

\* The exchange blocks an agent created itself.
OwnExchangeBlocks(a) == {x \in db[a] : x.pk = a /\ x.tx.exchange}

\* The PROTECT session of the genesis-only handshake of a with b is complete
\* and is the only session either took part in: a's second block A2 is its
\* exchange proposal to b, a stores b's agreement B2, b's second block.
S1Session(a, b) ==
  /\ HasBlock(db[a], a, 2)
  /\ BlockAt(db[a], a, 2).lpk = b
  /\ BlockAt(db[a], a, 2).lseq = UNKNOWN_SEQ
  /\ Blk(b, 2, a, 2, BlockAt(db[a], a, 2).tx) \in db[a]
  /\ OwnExchangeBlocks(a) = {BlockAt(db[a], a, 2)}
  /\ OwnExchangeBlocks(b) = {Blk(b, 2, a, 2, BlockAt(db[a], a, 2).tx)}

\* C13: after the PROTECT session of the genesis-only handshake of a with b,
\* transfer_up and transfer_down of the exchange payload are empty, and the
\* exchange storage of each has exactly one entry, keyed by the hash of its
\* own exchange block (A2, B2) and mapping to the empty BlockIndex.
C13_GenesisHandshakeEmptyTransfers ==
  \A c \in Channels :
    S1Session(c[1], c[2])
    => LET A2 == BlockAt(db[c[1]], c[1], 2)
           B2 == Blk(c[2], 2, c[1], 2, A2.tx)
       IN  /\ UnpackIndex(A2.tx.up) = EmptyIndex
           /\ UnpackIndex(A2.tx.down) = EmptyIndex
           /\ exch[c[1]] = {[hash |-> Hash(A2), index |-> <<EmptyIndex>>]}
           /\ exch[c[2]] = {[hash |-> Hash(B2), index |-> <<EmptyIndex>>]}

\* C14: when responder d handles a PROTECT_INDEX_REPLY of s with an open
\* request, the index it stores in the request lists the pairs of all
\* received exchange indexes together with those of from_chain of the chain
\* s disclosed, and it sends s one PROTECT_BLOCKS_REQUEST carrying the
\* stored index minus from_blocks of all blocks of its own store.
C14_PartnerIndexFromChain ==
  [][\A c \in Channels :
       (rc_open(cache[c[2]], c[1]) /\ cache[c[2]][c[1]].chain # <<>>)
       => \A m \in Arriving("PROTECT_INDEX_REPLY", c[1], c[2]) :
            Handles("PROTECT_INDEX_REPLY", c[1], c[2], m)
            => /\ rc_open(cache'[c[2]], c[1])
               /\ Len(cache'[c[2]][c[1]].index) = 1
               /\ Pairs(cache'[c[2]][c[1]].index[1])
                    = Pairs(SumIndexes(EmptyIndex, ExchangesFromMessage(m.exch)))
                        \cup Pairs(from_chain(cache[c[2]][c[1]].chain[1]))
               /\ Len(sent') = 1
               /\ sent'[1].src = c[2] /\ sent'[1].dst = c[1]
               /\ sent'[1].msg.type = "PROTECT_BLOCKS_REQUEST"
               /\ Pairs(IndexFromMessage(sent'[1].msg.index))
                    = Pairs(cache'[c[2]][c[1]].index[1])
                        \ Pairs(from_blocks(get_all_blocks(db[c[2]])))]_vars

\* The exchange proposal d makes for s out of the transfer_up index recorded
\* in its request and the blocks of a PROTECT_CHAIN_BLOCKS message.
ProposalFor(d, s, m) ==
  Blk(d, NextSeq(db[d], d), s, UNKNOWN_SEQ,
      ExchangeTx(db_pack(cache[d][s].transfer_up[1]),
                 db_pack(from_blocks(BlocksFromMessage(m.blocks)))))

\* C15: (a) handling a PROTECT_BLOCKS_REQUEST with an open request records
\* the received index as the request's transfer_up; (b) when an agent with
\* an open request for a peer s of its directory, in which a transfer_up is
\* recorded, handles a PROTECT_CHAIN_BLOCKS of s, it stores and sends s one
\* exchange proposal, its next own block, whose payload carries that
\* transfer_up and as transfer_down from_blocks of the received blocks; its
\* exchange storage gets an entry for the proposal and the request cache
\* stays as it was, the request open.
C15_ProposalCarriesTransfers ==
  /\ [][\A c \in Channels :
          rc_open(cache[c[2]], c[1])
          => \A m \in Arriving("PROTECT_BLOCKS_REQUEST", c[1], c[2]) :
               \/ /\ rc_open(cache'[c[2]], c[1])
                  /\ cache'[c[2]][c[1]].transfer_up = <<IndexFromMessage(m.index)>>
               \/ ~Handles("PROTECT_BLOCKS_REQUEST", c[1], c[2], m)]_vars
  /\ [][\A c \in Channels :
          (/\ rc_open(cache[c[2]], c[1])
           /\ KnownPartner(c[2], c[1])
           /\ cache[c[2]][c[1]].transfer_up # <<>>)
          => \A m \in Arriving("PROTECT_CHAIN_BLOCKS", c[1], c[2]) :
               \/ /\ sent' = <<[src |-> c[2], dst |-> c[1],
                               msg |-> BlockMsg("PROTECT_BLOCK_PROPOSAL",
                                                ProposalFor(c[2], c[1], m))]>>
                  /\ db'[c[2]] = db[c[2]] \cup {ProposalFor(c[2], c[1], m)}
                  /\ \E e \in exch'[c[2]] : e.hash = Hash(ProposalFor(c[2], c[1], m))
                  /\ cache'[c[2]] = cache[c[2]]
               \/ ~Handles("PROTECT_CHAIN_BLOCKS", c[1], c[2], m)]_vars

\* An agent has just sent an exchange proposal that carries a non-empty
\* transfer_up and a different transfer_down, with its request still open.
C15_Witness ==
  \E c \in Channels :
    /\ Len(sent) = 1
    /\ sent[1].src = c[2] /\ sent[1].dst = c[1]
    /\ sent[1].msg.type = "PROTECT_BLOCK_PROPOSAL"
    /\ rc_open(cache[c[2]], c[1])
    /\ cache[c[2]][c[1]].transfer_up # <<>>
    /\ LET p == BlockFromMessage(sent[1].msg.blocks[1])
       IN  /\ p \in db[c[2]]
           /\ p.tx.up = db_pack(cache[c[2]][c[1]].transfer_up[1])
           /\ p.tx.up # <<>>
           /\ p.tx.down # p.tx.up

\* The agreement d links to the proposal a PROTECT_BLOCK_PROPOSAL carries.
AgreementFor(d, m) ==
  Blk(d, NextSeq(db[d], d), BlockFromMessage(m.blocks[1]).pk,
      BlockFromMessage(m.blocks[1]).seq, BlockFromMessage(m.blocks[1]).tx)

C17_InteractionWithSamePeer ==
  [][\A c \in Channels :
       rc_open(cache[c[2]], c[1])
       => \A m \in Arriving("PROTECT_BLOCK_AGREEMENT", c[1], c[2]) :
            \/ /\ BlockFromMessage(m.blocks[1]) \in db'[c[2]]
               /\ ~rc_open(cache'[c[2]], c[1])
               /\ Len(sent') = 1
               /\ sent'[1].src = c[2] /\ sent'[1].dst = c[1]
               /\ sent'[1].msg.type = "BLOCK_PROPOSAL"
               /\ BlockFromMessage(sent'[1].msg.blocks[1]).pk = c[2]
               /\ BlockFromMessage(sent'[1].msg.blocks[1]).lpk = c[1]
               /\ BlockFromMessage(sent'[1].msg.blocks[1]).tx = NoTx
            \/ ~Handles("PROTECT_BLOCK_AGREEMENT", c[1], c[2], m)]_vars

C19_OtherRequestsUntouched ==
  [][\A c \in Channels :
       \/ \A q \in Agents \ {c[1]} :
            /\ rc_open(cache'[c[2]], q) = rc_open(cache[c[2]], q)
            /\ rc_open(cache[c[2]], q) => cache'[c[2]][q] = cache[c[2]][q]
       \/ ~Receive(c[1], c[2])]_vars

\* Agent d, holding a request for q, has just handled a message of another
\* peer p that changed p's request: p's request now has an index recorded
\* and d has answered p with a PROTECT_BLOCKS_REQUEST.
C19_Witness ==
  \E c \in Channels :
    \E q \in Agents \ {c[1], c[2]} :
      /\ rc_open(cache[c[2]], q)
      /\ rc_open(cache[c[2]], c[1])
      /\ cache[c[2]][c[1]].index # <<>>
      /\ Len(sent) = 1
      /\ sent[1].src = c[2] /\ sent[1].dst = c[1]
      /\ sent[1].msg.type = "PROTECT_BLOCKS_REQUEST"

\* C20: whenever an agent stores a proposal p (a block whose link sequence
\* number is unknown) and an agreement a that answers it (a links to p's
\* public key and sequence number), the two halves agree: same transaction,
\* p linked to a's creator, a linked to p.
C20_HalvesAgree ==
  \A d \in Agents :
    \A p \in db[d] :
      \A a \in db[d] :
        (/\ p.lseq = UNKNOWN_SEQ
         /\ a.lseq # UNKNOWN_SEQ
         /\ a.lpk = p.pk
         /\ a.lseq = p.seq)
        => /\ p.tx = a.tx
           /\ p.lpk = a.pk
           /\ a.lpk = p.pk
           /\ a.lseq = p.seq

\* The public keys an index has entries for.
Keys(index) == {index[i][1] : i \in DOMAIN index}

\* C21: A - B lists exactly the pairs (k, s) that A lists and B does not;
\* a key B has no entry for keeps its entry of A as it is, a key A has no
\* entry for does not appear; and for the example indexes
\* A = {p:[1,2,3], q:[5]}, B = {p:[2], q:[5,6], r:[1]} the differences are
\* A - B = {p:[1,3]} and B - A = {q:[6], r:[1]}.
C21_Difference ==
  call.fn = "__sub__"
  => /\ Pairs(call.out) = Pairs(call.args.self) \ Pairs(call.args.other)
     /\ Keys(call.out) \subseteq Keys(call.args.self)
     /\ \A i \in DOMAIN call.args.self :
          call.args.self[i][1] \notin Keys(call.args.other)
          => call.args.self[i] \in Range(call.out)
     /\ (call.args.self = ExampleA /\ call.args.other = ExampleB)
        => call.out = << <<1, <<1, 3>> >> >>
     /\ (call.args.self = ExampleB /\ call.args.other = ExampleA)
        => call.out = << <<2, <<6>> >>, <<3, <<1>> >> >>

\* The difference of two indexes that have a key in common, a key of self
\* only and a key of other only, self's entries not in key order.
C21_Witness ==
  /\ call.fn = "__sub__"
  /\ call.args.self = << <<2, <<1, 2>> >>, <<1, <<1>> >> >>
  /\ call.args.other = << <<2, <<2>> >> >>
  /\ call.out = << <<1, <<1>> >>, <<2, <<1>> >> >>

\* C22: A + B lists exactly the pairs (k, s) that A or B lists, with one
\* entry per key; for the example indexes A + B = {p:[1,2,3], q:[5,6],
\* r:[1]}.
C22_Union ==
  call.fn = "__add__"
  => /\ Pairs(call.out) = Pairs(call.args.self) \cup Pairs(call.args.other)
     /\ Cardinality(Keys(call.out)) = Len(call.out)
     /\ (call.args.self = ExampleA /\ call.args.other = ExampleB)
        => call.out = << <<1, <<1, 2, 3>> >>, <<2, <<5, 6>> >>, <<3, <<1>> >> >>

\* The union of two indexes that have a key in common and a key of other
\* only, other's entries not in key order.
C22_Witness ==
  /\ call.fn = "__add__"
  /\ call.args.self = << <<2, <<1>> >> >>
  /\ call.args.other = << <<2, <<2>> >>, <<1, <<1>> >> >>
  /\ call.out = << <<1, <<1>> >>, <<2, <<1, 2>> >> >>

\* An index in the canonical representation: entries in key order, each
\* key once, the sequence numbers of a key ascending and not empty.
Canonical(index) ==
  /\ \A i, j \in DOMAIN index : i < j => index[i][1] < index[j][1]
  /\ \A i \in DOMAIN index :
       /\ index[i][2] # <<>>
       /\ \A m, n \in DOMAIN index[i][2] :
            m < n => index[i][2][m] < index[i][2][n]

\* C23: (A + B) - B lists only pairs of A; A - B lists no pair of B; A + A
\* lists the pairs of A, and is A itself when A is canonical; A - A is the
\* empty index.
C23_Algebra ==
  /\ call.fn = "(A + B) - B" => Pairs(call.out) \subseteq Pairs(call.args.self)
  /\ call.fn = "__sub__" => Pairs(call.out) \cap Pairs(call.args.other) = {}
  /\ call.fn = "A + A"
     => /\ Pairs(call.out) = Pairs(call.args.self)
        /\ Canonical(call.args.self) => call.out = call.args.self
  /\ call.fn = "A - A" => call.out = EmptyIndex

\* (A + B) - B of two indexes with a pair in common keeps what only A has.
C23_Witness ==
  /\ call.fn = "(A + B) - B"
  /\ call.args.self = << <<2, <<1, 2>> >>, <<1, <<2>> >> >>
  /\ call.args.other = << <<2, <<2>> >> >>
  /\ call.out = << <<1, <<2>> >>, <<2, <<1>> >> >>

\* C24: from_chain(chain) lists exactly the (public key, sequence number)
\* pairs of the chain's blocks and, for every exchange block of the chain,
\* the pairs of its transfer_up if the block is a proposal half (its link
\* sequence number is unknown) and of its transfer_down otherwise.
C24_FromChainPicksByHalf ==
  call.fn = "from_chain"
  => Pairs(call.out)
       = {<<b.pk, b.seq>> : b \in Range(call.args.chain)}
           \cup UNION {Pairs(UnpackIndex(IF b.lseq = UNKNOWN_SEQ
                                         THEN b.tx.up ELSE b.tx.down)) :
                         b \in {x \in Range(call.args.chain) : x.tx.exchange}}

\* Invariant I1 on a list of blocks: for each public key that occurs, the
\* sequence numbers of its blocks are 1..N, each once.
I1(chain) ==
  \A pk \in {b.pk : b \in Range(chain)} :
    LET own == {i \in DOMAIN chain : chain[i].pk = pk}
    IN  \A n \in 1..Cardinality(own) :
          Cardinality({i \in own : chain[i].seq = n}) = 1

\* C25: verify_chain returns True for the chains for which I1 holds and
\* False for all others.
C25_VerifyChainIsI1 ==
  call.fn = "verify_chain"
  => /\ call.out = "True" <=> I1(call.args.chain)
     /\ call.out = "False" <=> ~I1(call.args.chain)

\* C26: BlockIndex.from_message(X.as_message()) has the entries of X, and
\* Block.from_message(b.as_message()) has the transaction, public_key,
\* sequence_number, link_public_key, link_sequence_number, previous_hash
\* and signature of b.
C26_WireRoundTrip ==
  /\ call.fn = "BlockIndex.from_message" => call.out = call.args.self
  /\ call.fn = "Block.from_message"
     => /\ call.out.transaction = call.args.block.transaction
        /\ call.out.public_key = call.args.block.public_key
        /\ call.out.sequence_number = call.args.block.sequence_number
        /\ call.out.link_public_key = call.args.block.link_public_key
        /\ call.out.link_sequence_number = call.args.block.link_sequence_number
        /\ call.out.previous_hash = call.args.block.previous_hash
        /\ call.out.signature = call.args.block.signature

\* A signed exchange agreement has gone through the wire: the block that
\* comes back is another one, its insert_time being new.
C26_Witness ==
  /\ call.fn = "Block.from_message"
  /\ call.args.block.transaction.exchange
  /\ call.args.block.link_sequence_number # UNKNOWN_SEQ
  /\ call.args.block.previous_hash = "h"
  /\ call.args.block.signature = "s"
  /\ call.out # call.args.block

\* C27: neither A - B nor A + B has an entry whose sequence number list is
\* empty, whatever A and B, indexes with empty entries included.
C27_EmptyEntriesElided ==
  call.fn \in {"__sub__", "__add__"}
  => \A i \in DOMAIN call.out : call.out[i][2] # <<>>

\* The (public key, sequence number) pairs of the blocks of agent d's store
\* that the partner index of its request for s does not list.
OwnExtra(d, s) ==
  {<<b.pk, b.seq>> : b \in db[d]} \ Pairs(cache[d][s].index[1])

\* C28: when agent d, holding a request for s with a partner index, handles
\* a PROTECT_BLOCKS_REPLY of s, it records as the request's transfer_down
\* an index that lists exactly the pairs of its stored blocks that the
\* partner index lacks, and sends s one PROTECT_CHAIN_BLOCKS whose chain is
\* all of d's own blocks in sequence order and whose blocks are exactly the
\* stored blocks transfer_down lists, each once; none of them is listed in
\* the partner index.
C28_OwnExtraBlocksSent ==
  [][\A c \in Channels :
       (rc_open(cache[c[2]], c[1]) /\ cache[c[2]][c[1]].index # <<>>)
       => \A m \in Arriving("PROTECT_BLOCKS_REPLY", c[1], c[2]) :
            \/ /\ rc_open(cache'[c[2]], c[1])
               /\ Len(cache'[c[2]][c[1]].transfer_down) = 1
               /\ Pairs(cache'[c[2]][c[1]].transfer_down[1]) = OwnExtra(c[2], c[1])
               /\ Len(sent') = 1
               /\ sent'[1].src = c[2] /\ sent'[1].dst = c[1]
               /\ sent'[1].msg.type = "PROTECT_CHAIN_BLOCKS"
               /\ LET chain == BlocksFromMessage(sent'[1].msg.chain)
                      blocks == BlocksFromMessage(sent'[1].msg.blocks)
                  IN  /\ Range(chain) = {b \in db[c[2]] : b.pk = c[2]}
                      /\ \A i \in DOMAIN chain : chain[i].seq = i
                      /\ Range(blocks)
                           = {b \in db[c[2]] : <<b.pk, b.seq>> \in OwnExtra(c[2], c[1])}
                      /\ Len(blocks) = Cardinality(Range(blocks))
                      /\ \A i \in DOMAIN blocks :
                           <<blocks[i].pk, blocks[i].seq>>
                             \notin Pairs(cache[c[2]][c[1]].index[1])
            \/ ~Handles("PROTECT_BLOCKS_REPLY", c[1], c[2], m)]_vars

\* A responder that stores a block the partner index lists has just sent
\* its chain and its extra blocks.
C28_Witness ==
  \E c \in Channels :
    /\ Len(sent) = 1
    /\ sent[1].src = c[2] /\ sent[1].dst = c[1]
    /\ sent[1].msg.type = "PROTECT_CHAIN_BLOCKS"
    /\ sent[1].msg.blocks # <<>>
    /\ rc_open(cache[c[2]], c[1])
    /\ cache[c[2]][c[1]].index # <<>>
    /\ cache[c[2]][c[1]].transfer_down # <<>>
    /\ \E b \in db[c[2]] : <<b.pk, b.seq>> \in Pairs(cache[c[2]][c[1]].index[1])

C30_OwnChainContiguous ==
  /\ \A a \in Agents :
       /\ {b.seq : b \in {x \in db[a] : x.pk = a}}
            = 1..Cardinality({x \in db[a] : x.pk = a})
       /\ \A b \in db[a] : \A x \in db[a] :
            (b.pk = a /\ x.pk = a /\ b.seq = x.seq) => b = x
  /\ \A i \in DOMAIN sent :
       /\ sent[i].msg.type = "PROTECT_CHAIN"
          => /\ sent[i].msg.blocks # <<>>
             /\ I1(BlocksFromMessage(sent[i].msg.blocks))
       /\ sent[i].msg.type = "PROTECT_CHAIN_BLOCKS"
          => /\ sent[i].msg.chain # <<>>
             /\ I1(BlocksFromMessage(sent[i].msg.chain))

\* An agent whose chain holds an exchange block of a session with one peer
\* and a base block discloses the chain to another peer.
C30_Witness ==
  \E a \in Agents : \E b \in db[a] : \E x \in db[a] :
    /\ b.pk = a /\ b.tx.exchange
    /\ x.pk = a /\ x.seq > GENESIS_SEQ /\ ~x.tx.exchange
    /\ Len(sent) = 1
    /\ sent[1].src = a
    /\ sent[1].dst # b.lpk
    /\ sent[1].msg.type \in {"PROTECT_CHAIN", "PROTECT_CHAIN_BLOCKS"}

\* The index an exchange block's payload declares for its creator's side:
\* transfer_up of a proposal half, transfer_down of an agreement half.
OwnSide(b) ==
  IF b.lseq = UNKNOWN_SEQ THEN UnpackIndex(b.tx.up) ELSE UnpackIndex(b.tx.down)

\* C31: in every reachable state, for every exchange block b of an agent's
\* own key in its store, the exchange storage records under hash(b) the
\* index of b's payload field of the agent's side: transfer_up when b is a
\* proposal half, transfer_down when b is an agreement half.
C31_RecordedIndexIsPayloadField ==
  \A a \in Agents :
    \A b \in OwnExchangeBlocks(a) :
      \A e \in exch[a] :
        e.hash = Hash(b) => e.index = <<OwnSide(b)>>

\* C32: among honest agents, every message delivered once and in order,
\* from some point on no agent holds a request cache entry for a peer (so
\* every entry, created by sending or by receiving a PROTECT_CHAIN, is
\* removed after it was created) and no agent ignores a peer: request_protect
\* would open a new session with it.
C32_NoSessionHangs ==
  <>[](\A c \in Channels :
         /\ ~rc_open(cache[c[2]], c[1])
         /\ c[1] \notin Range(ignore[c[2]]))

\* Two agents initiated with each other at the same time, both requests
\* are gone again and nothing is in flight between them.
C32_Witness ==
  \E c \in Channels :
    /\ coll[{c[1], c[2]}] # <<>>
    /\ ~rc_open(cache[c[2]], c[1])
    /\ ~rc_open(cache[c[1]], c[2])
    /\ chan[c] = <<>>
    /\ chan[<<c[2], c[1]>>] = <<>>

\* C33: among honest agents no agent's ignore list ever holds a peer, and
\* every PROTECT_CHAIN in flight carries a chain that verify_chain accepts.
C33_HonestNeverIgnored ==
  /\ \A a \in Agents : ignore[a] = <<>>
  /\ \A c \in Channels :
       \A i \in DOMAIN chan[c] :
         chan[c][i].type = "PROTECT_CHAIN"
         => /\ chan[c][i].blocks # <<>>
            /\ verify_chain(BlocksFromMessage(chan[c][i].blocks))

\* An agent has just verified a peer's chain of three blocks or more, which
\* holds blocks of earlier sessions, and ignores nobody.
C33_Witness ==
  \E c \in Channels :
    /\ Accepted(c[1], c[2])
    /\ rc_open(cache[c[2]], c[1])
    /\ cache[c[2]][c[1]].chain # <<>>
    /\ Len(cache[c[2]][c[1]].chain[1]) >= 3
    /\ ignore[c[2]] = <<>>

\* C34: among honest agents, no exchange block in any store lists a
\* (public key, sequence number) pair in both transfer_up and transfer_down.
C34_TransfersDisjoint ==
  \A a \in Agents :
    \A b \in db[a] :
      b.tx.exchange
      => Pairs(UnpackIndex(b.tx.up)) \cap Pairs(UnpackIndex(b.tx.down)) = {}

\* An agent stores an exchange block of a later session, whose two
\* transfers both list blocks.
C34_Witness ==
  \E a \in Agents :
    \E b \in db[a] :
      /\ b.tx.exchange
      /\ b.seq > 2
      /\ Pairs(UnpackIndex(b.tx.up)) # {}
      /\ Pairs(UnpackIndex(b.tx.down)) # {}

\* The (public key, sequence number) pairs of the blocks a store or a block
\* list holds.
StoredPairs(blocks) == {<<b.pk, b.seq>> : b \in blocks}

\* C35: among honest agents, (a) every index recorded in an agent's
\* exchange storage, and every index of a PROTECT_BLOCKS_REQUEST on its way
\* to the agent, lists only blocks of the agent's store; (b) an agent that
\* handles a PROTECT_BLOCKS_REQUEST with its request open answers with one
\* PROTECT_BLOCKS_REPLY whose blocks are exactly those the requested index
\* lists, and records as transfer_up an index that lists exactly the blocks
\* it uploads.
C35_IndexesNameStoredBlocks ==
  /\ [](\A a \in Agents :
          /\ \A e \in exch[a] :
               /\ e.index # <<>>
               /\ Pairs(e.index[1]) \subseteq StoredPairs(db[a])
          /\ \A s \in Agents \ {a} :
               \A i \in DOMAIN chan[<<s, a>>] :
                 chan[<<s, a>>][i].type = "PROTECT_BLOCKS_REQUEST"
                 => Pairs(IndexFromMessage(chan[<<s, a>>][i].index))
                      \subseteq StoredPairs(db[a]))
  /\ [][\A c \in Channels :
          rc_open(cache[c[2]], c[1])
          => \A m \in Arriving("PROTECT_BLOCKS_REQUEST", c[1], c[2]) :
               \/ /\ Len(sent') = 1
                  /\ sent'[1].src = c[2] /\ sent'[1].dst = c[1]
                  /\ sent'[1].msg.type = "PROTECT_BLOCKS_REPLY"
                  /\ StoredPairs(Range(BlocksFromMessage(sent'[1].msg.blocks)))
                       = Pairs(IndexFromMessage(m.index))
                  /\ Len(sent'[1].msg.blocks)
                       = Cardinality(Pairs(IndexFromMessage(m.index)))
                  /\ Range(BlocksFromMessage(sent'[1].msg.blocks))
                       \subseteq db[c[2]]
                  /\ cache'[c[2]][c[1]].transfer_up # <<>>
                  /\ Pairs(cache'[c[2]][c[1]].transfer_up[1])
                       = StoredPairs(Range(BlocksFromMessage(sent'[1].msg.blocks)))
               \/ ~Handles("PROTECT_BLOCKS_REQUEST", c[1], c[2], m)]_vars

\* An agent has just uploaded three blocks or more for a recorded
\* transfer_up, and its exchange storage holds an index of an earlier
\* session.
C35_Witness ==
  \E c \in Channels :
    /\ Len(sent) = 1
    /\ sent[1].src = c[2] /\ sent[1].dst = c[1]
    /\ sent[1].msg.type = "PROTECT_BLOCKS_REPLY"
    /\ Len(sent[1].msg.blocks) >= 3
    /\ rc_open(cache[c[2]], c[1])
    /\ cache[c[2]][c[1]].transfer_up # <<>>
    /\ exch[c[2]] # {}

\* C36: among honest agents, when a responder that holds the chain an
\* initiator disclosed in the session's PROTECT_CHAIN handles the
\* initiator's PROTECT_BLOCK_PROPOSAL, the proposal's sequence number is one
\* more than the length of that chain.
C36_AuditedChainCurrent ==
  [][\A c \in Channels :
       (/\ rc_open(cache[c[2]], c[1])
        /\ cache[c[2]][c[1]].chain # <<>>)
       => \A m \in Arriving("PROTECT_BLOCK_PROPOSAL", c[1], c[2]) :
            \/ m.blocks[1].sequence_number
                 = Len(cache[c[2]][c[1]].chain[1]) + 1
            \/ ~Handles("PROTECT_BLOCK_PROPOSAL", c[1], c[2], m)]_vars

\* C37: in no step does an agent create a block of its own that is linked
\* to a peer of its ignore list, or send that peer a BLOCK_AGREEMENT or a
\* PROTECT_BLOCK_AGREEMENT.
C37_NothingForIgnoredPeer ==
  [][\A c \in Channels :
       c[1] \in Range(ignore[c[2]])
       => /\ \A b \in db'[c[2]] \ db[c[2]] : ~(b.pk = c[2] /\ b.lpk = c[1])
          /\ \A i \in DOMAIN sent' :
               ~(/\ sent'[i].src = c[2]
                 /\ sent'[i].dst = c[1]
                 /\ sent'[i].msg.type
                      \in {"BLOCK_AGREEMENT", "PROTECT_BLOCK_AGREEMENT"})]_vars

\* C38: a step in which an agent sends a BLOCK_PROPOSAL to a peer R is a
\* step in which the agent, with a request for R open, handles a
\* PROTECT_BLOCK_AGREEMENT of R and stores its block; request_protect, the
\* periodic step, sends none.
C38_BaseProposalOnlyAfterAgreement ==
  [][\A c \in Channels :
       (\E i \in DOMAIN sent' :
          /\ sent'[i].msg.type = "BLOCK_PROPOSAL"
          /\ sent'[i].src = c[2]
          /\ sent'[i].dst = c[1])
       => /\ rc_open(cache[c[2]], c[1])
          /\ \E m \in Arriving("PROTECT_BLOCK_AGREEMENT", c[1], c[2]) :
               /\ Handles("PROTECT_BLOCK_AGREEMENT", c[1], c[2], m)
               /\ BlockFromMessage(m.blocks[1]) \in db'[c[2]]
          /\ \A a \in Agents : \A p \in Agents : ~request_protect(a, p)]_vars

\* The field of the request that the handler of a message type reads.
FieldRead(type, request) ==
  CASE type = "PROTECT_INDEX_REPLY" -> request.chain
    [] type = "PROTECT_BLOCKS_REPLY" -> request.index
    [] type = "PROTECT_CHAIN_BLOCKS" -> request.transfer_up
    [] type = "PROTECT_BLOCK_PROPOSAL" -> request.transfer_down

C40_EmptyChainRejected ==
  [][\A c \in Channels :
       (/\ ~rc_open(cache[c[2]], c[1])
        /\ c[1] \notin Range(ignore[c[2]]))
       => \A m \in Arriving("PROTECT_CHAIN", c[1], c[2]) :
            \/ m.blocks # <<>>
            \/ /\ sent' = OneReject(c[2], c[1])
               /\ c[1] \in Range(ignore'[c[2]])
               /\ err' = err
            \/ ~Handles("PROTECT_CHAIN", c[1], c[2], m)]_vars

====
